---------------------------- MODULE Spec2Model ----------------------------
(***************************************************************************)
(* Model of the lint scheduling and caching core of the Obsidian textlint  *)
(* highlighter plugin.                                                      *)
(*                                                                         *)
(*   SpecCache : one Cache<T> instance (utils/Cache.ts) driven by its      *)
(*               public methods, with a clock.                             *)
(*   Spec      : the plugin's lint scheduler (TextlintHighlightPlugin.ts): *)
(*               debouncer, throttler, idle callbacks, lintCurrentFile     *)
(*               runs split at their await points, the result cache, the   *)
(*               rule memo, saveSettings and clearCache.                   *)
(***************************************************************************)
EXTENDS Integers, Sequences, FiniteSets, TLC

VARIABLES
    now,               \* Date.now(), in milliseconds
    cache,             \* SpecCache: the Map of the Cache under test
    lastOp,            \* SpecCache: the last method call, its arguments and result
    docText,           \* what vault.read returns for the active file
    settings,          \* plugin.settings: the set of enabled toggles
    saving,            \* saveSettings calls waiting for saveData
    timers,            \* pending setTimeout timers: [kind, at]
    timeoutId,         \* the debouncer's timeoutId (deadline of the timer it names)
    canRun,            \* the throttler's canRun
    queued,            \* the throttler's queued
    runs,              \* the lintCurrentFile calls, in the order they were requested
    resultCache,       \* plugin.resultCache
    rulesCache,        \* RuleLoader.rulesCache
    lastProcessedFile, \* plugin.lastProcessedFile
    lastContentHash,   \* plugin.lastContentHash
    display,           \* the list last handed to applyResults
    burst,             \* history: the current burst of debounced triggers
    quietFrom,         \* history: no edit, settings change or cache clear has
                       \* happened since run quietFrom was requested
    proc,              \* SpecAdaptive: a processWithKuromojiOptimization call
    chunkTimer,        \* SpecAdaptive: deadline of the call's pending setTimeout
    split,             \* SpecChunks: a createProcessingChunks call
    previousResults,   \* DifferentialProcessor.previousResults
    dcalls,            \* SpecDiff: the processChangedRegionsOnly calls, in order
    loads,             \* SpecRules: the RuleLoader.loadRules calls, in order
    events,            \* SpecEvents: the lint requests and onunload, with their times
    lru                \* SpecLru: the LRUCache under test

cacheVars == <<cache, lastOp>>

schedVars ==
    <<docText, settings, saving, timers, timeoutId, canRun, queued, runs,
      resultCache, rulesCache, lastProcessedFile, lastContentHash, display, burst,
      quietFrom>>

procVars == <<proc, chunkTimer, split, previousResults, dcalls, loads, events, lru>>

vars == <<now, cacheVars, schedVars, procVars>>

(***************************************************************************)
(* utils/Cache.ts : Cache<T>                                               *)
(*                                                                         *)
(* A Map is a function whose domain is the set of keys present.  An entry  *)
(* is [data, timestamp, hash]; hash "" stands for a missing (undefined)    *)
(* or empty digest, both of which are falsy in `!entry.hash`.              *)
(***************************************************************************)
NoHash == ""

NoEntry == [data |-> <<>>, timestamp |-> 0, hash |-> NoHash]

EmptyMap == [k \in {} |-> NoEntry]

MapDelete(m, k) == [x \in DOMAIN m \ {k} |-> m[x]]

\* Cache.set(key, value, hash?) at time t
CacheSet(m, k, v, h, t) ==
    [x \in DOMAIN m \cup {k} |->
        IF x = k THEN [data |-> v, timestamp |-> t, hash |-> h] ELSE m[x]]

\* the expiry test with its comparison turned round
ExpiredReversed(e, ttl, t) == t - e.timestamp < ttl

\* the expiry test shared by get, has, isValidByHash and cleanup
Expired(e, ttl, t) == t - e.timestamp > ttl

\* Cache.get(key) at time t: the map after the call and the value returned
\* (found = FALSE stands for null)
CacheGet(m, ttl, k, t) ==
    IF k \notin DOMAIN m THEN [map |-> m, found |-> FALSE, value |-> <<>>]
    ELSE IF Expired(m[k], ttl, t)
         THEN [map |-> MapDelete(m, k), found |-> FALSE, value |-> <<>>]
         ELSE [map |-> m, found |-> TRUE, value |-> m[k].data]

\* Cache.has(key) at time t
CacheHas(m, ttl, k, t) ==
    IF k \notin DOMAIN m THEN [map |-> m, ret |-> FALSE]
    ELSE IF Expired(m[k], ttl, t)
         THEN [map |-> MapDelete(m, k), ret |-> FALSE]
         ELSE [map |-> m, ret |-> TRUE]

\* Cache.isValidByHash(key, currentHash) at time t
CacheIsValidByHash(m, ttl, k, h, t) ==
    IF k \notin DOMAIN m \/ m[k].hash = NoHash THEN [map |-> m, ret |-> FALSE]
    ELSE IF Expired(m[k], ttl, t)
         THEN [map |-> MapDelete(m, k), ret |-> FALSE]
         ELSE [map |-> m, ret |-> (m[k].hash = h)]

\* Cache.cleanup(), called by getStats()
CacheCleanup(m, ttl, t) ==
    [x \in {k \in DOMAIN m : ~Expired(m[k], ttl, t)} |-> m[x]]

(***************************************************************************)
(* The plugin's data: documents, digests, settings, rules and findings.    *)
(***************************************************************************)
\* a document is its sequence of lines; both have fewer than 1000 lines, so
\* processWithKuromojiOptimization hands them to the analyzer whole
Texts == {<<"toolong">>, <<"fine", "wawa">>}

NoText == <<>>

\* line i holds the over-long sentence if i is in long, the doubled
\* particle if i is in joshi, an unobjectionable sentence otherwise
Doc(n, long, joshi) ==
    [i \in 1..n |-> IF i \in long THEN "toolong"
                    ELSE IF i \in joshi THEN "wawa" ELSE "fine"]

\* a 40-line document before and after an edit of its first line
RouteTexts == {Doc(40, {6, 7, 17}, {}), Doc(40, {6, 7, 17}, {1})}

FilePath == "note.md"

NoFile == ""

\* generateContentHash: the leading hex digits of the SHA-256 digest
generateContentHash(t) ==
    CASE t = <<"toolong">> -> "e6d63dca"
      [] t = <<"fine", "wawa">> -> "30102e32"
      [] t = Doc(40, {6, 7, 17}, {}) -> "d42b9bd9"
      [] t = Doc(40, {6, 7, 17}, {1}) -> "cd49ffc4"
      [] OTHER -> "e3b0c442"

\* `${file.path}_${contentHash}`
CacheKey(path, h) == <<path, h>>

\* the toggles of TextlintPluginSettings that the model varies
Toggles == {"useNoDoubledJoshi"}

\* DEFAULT_SETTINGS: every toggle and the technical-writing preset are on
DEFAULT_SETTINGS == {"useTechnicalWritingPreset"} \cup Toggles

\* the elements of a finite set of numbers in ascending order
Ascending(S) ==
    [p \in 1..Cardinality(S) |->
        CHOOSE x \in S : Cardinality({y \in S : y < x}) = p - 1]

\* the toggles generateSettingsKey reads, each with its key part
KeyParts ==
    << <<"useTechnicalWritingPreset", "tech">>,
       <<"useSpacingPreset", "space">>,
       <<"useJtfStylePreset", "jtf">>,
       <<"useCustomRules", "ai">>,
       <<"useNoDroppingI", "dropi">>,
       <<"useNoInsertDroppingSa", "dropsa">>,
       <<"useNoDoubledJoshi", "joshi">>,
       <<"useNoMixedZenkakuHankakuAlphabet", "alpha">>,
       <<"usePreferTariTari", "tari">>,
       <<"useWriteGood", "writegood">>,
       <<"useJaNoOrthographicVariants", "orthographic">>,
       <<"useNoMixDearuDesumasu", "mixstyle">>,
       <<"useNoStartDuplicatedConjunction", "conjunction">>,
       <<"useDateWeekdayMismatch", "dateweekday">> >>

\* RuleLoader.generateSettingsKey: the key parts of the enabled toggles, in
\* table order, or 'empty'; the joined string is held as the sequence of its
\* parts
generateSettingsKey(s) ==
    LET at == Ascending({i \in 1..Len(KeyParts) : KeyParts[i][1] \in s})
        parts == [p \in 1..Len(at) |-> KeyParts[at[p]][2]]
    IN IF parts = <<>> THEN <<"empty">> ELSE parts

\* RuleLoader.loadRules on a memo miss: the preset's rules, then the
\* individual rules, each source in its fixed position
LoadRuleSources(s) ==
    (IF "useTechnicalWritingPreset" \in s THEN <<"sentence-length">> ELSE <<>>)
    \o (IF "useNoDoubledJoshi" \in s THEN <<"no-doubled-joshi">> ELSE <<>>)

\* the analyzer (kernel.lintText): a rule reports the lines it objects to
RuleFlags(rule, line) ==
    \/ rule = "sentence-length" /\ line = "toolong"
    \/ rule = "no-doubled-joshi" /\ line = "wawa"

RECURSIVE LintLine(_, _, _, _)
LintLine(text, rules, i, j) ==
    IF j > Len(rules) THEN <<>>
    ELSE (IF RuleFlags(rules[j], text[i])
          THEN <<[line |-> i, ruleId |-> rules[j]]>> ELSE <<>>)
         \o LintLine(text, rules, i, j + 1)

RECURSIVE LintFrom(_, _, _)
LintFrom(text, rules, i) ==
    IF i > Len(text) THEN <<>>
    ELSE LintLine(text, rules, i, 1) \o LintFrom(text, rules, i + 1)

lintText(text, rules) == LintFrom(text, rules, 1)

\* plugin constants
DebounceDelay == 500

ThrottleInterval == 200

ResultTtl == 600000

RulesTtl == 600000

NoTimer == -1

\* a run of lintCurrentFile.  pc: "idle" (its idle callback is queued),
\* "read" (awaiting vault.read), "hash" (awaiting generateContentHash),
\* "lint" (the analyzer call is unresolved), "done".
\* History fields: origin (what requested it), lookup (what the result cache
\* answered), analyzed (the analyzer was invoked), out/msgs (what the run
\* handed to applyResults, or "error"), stale (the document had changed when
\* the result was applied), inflight (the runs whose analyzer call was
\* unresolved when this run was requested), early (one of those was still
\* unresolved when this run started), alive (the runs not finished when this
\* run was requested), cleared (the result cache and the rule memo were empty
\* when the request had been made), quiet (quietFrom when the run finished),
\* checkAt and doneAt (the time of its cache lookup and of its end).
NewRun(origin, rs, cleared) ==
    [pc |-> "idle", origin |-> origin, content |-> NoText, hash |-> NoHash,
     snap |-> {}, rules |-> <<>>, lookup |-> "none", analyzed |-> FALSE,
     out |-> "none", msgs |-> <<>>, stale |-> FALSE,
     inflight |-> {r \in DOMAIN rs : rs[r].pc = "lint"},
     early |-> FALSE, cleared |-> cleared, quiet |-> 0,
     checkAt |-> 0, doneAt |-> 0,
     alive |-> {r \in DOMAIN rs : rs[r].pc # "done"}]

NoBurst == [n |-> 0, last |-> 0, fired |-> 0, firedAt |-> 0]

\* the plugin after onload, with the active file holding its first text
SchedIdle ==
    /\ docText = <<"toolong">>
    /\ settings = DEFAULT_SETTINGS
    /\ saving = 0
    /\ timers = {}
    /\ timeoutId = NoTimer
    /\ canRun = TRUE
    /\ queued = FALSE
    /\ runs = <<>>
    /\ resultCache = EmptyMap
    /\ rulesCache = EmptyMap
    /\ lastProcessedFile = NoFile
    /\ lastContentHash = NoHash
    /\ display = [set |-> FALSE, msgs |-> <<>>]
    /\ burst = NoBurst
    /\ quietFrom = 1

(***************************************************************************)
(* utils/AdaptiveProcessor.ts                                              *)
(*                                                                         *)
(* A text is held as the sequence of its lines, content.split('\n'): it    *)
(* has at least one line, no line holds a line break, and join('\n') of    *)
(* consecutive slices is their concatenation.                              *)
(***************************************************************************)
\* maxFileSize: Infinity, which is above every line count
Infinity == -1

\* chunkSize?: undefined, falsy in `if (strategy.chunkSize)` like 0
NoChunkSize == 0

\* endLine?: undefined, falsy in `msg.endLine ? ... : undefined` like 0
NoLine == 0

STRATEGIES ==
    << [maxFileSize |-> 1000, processingTimeout |-> 15000, chunkSize |-> NoChunkSize],
       [maxFileSize |-> 5000, processingTimeout |-> 30000, chunkSize |-> 1000],
       [maxFileSize |-> 10000, processingTimeout |-> 45000, chunkSize |-> 500],
       [maxFileSize |-> Infinity, processingTimeout |-> 60000, chunkSize |-> 200] >>

\* the number of line breaks instead of the number of lines
LineCountNewlines(content) == Len(content) - 1

\* content.split('\n').length
LineCount(content) == Len(content)

\* the comparison with its bound included
BelowOrEqual(lineCount, maxFileSize) == maxFileSize = Infinity \/ lineCount <= maxFileSize

\* lineCount < strategy.maxFileSize
Below(lineCount, maxFileSize) == maxFileSize = Infinity \/ lineCount < maxFileSize

\* the loop of getOptimalStrategy from table entry k on, and its fall-through
RECURSIVE StrategyFrom(_, _)
StrategyFrom(lineCount, k) ==
    IF k > Len(STRATEGIES) THEN STRATEGIES[Len(STRATEGIES)]
    ELSE IF Below(lineCount, STRATEGIES[k].maxFileSize) THEN STRATEGIES[k]
    ELSE StrategyFrom(lineCount, k + 1)

getOptimalStrategy(content) == StrategyFrom(LineCount(content), 1)

\* a slice that takes the line at `to` as well
SliceInclusive(lines, from, to) ==
    SubSeq(lines, from + 1, IF to + 1 < Len(lines) THEN to + 1 ELSE Len(lines))

\* lines.slice(from, to) of JavaScript: 0-based, `to` excluded, clamped
Slice(lines, from, to) ==
    SubSeq(lines, from + 1, IF to < Len(lines) THEN to ELSE Len(lines))

\* the values i takes in `for (let i = 0; i < lines.length; i += chunkSize)`
ChunkStarts(lines, chunkSize) == {i \in 0..(Len(lines) - 1) : i % chunkSize = 0}

\* the c-th value of i is (c - 1) * chunkSize
createProcessingChunks(content, chunkSize) ==
    [c \in 1..Cardinality(ChunkStarts(content, chunkSize)) |->
        Slice(content, (c - 1) * chunkSize, (c - 1) * chunkSize + chunkSize)]

\* chunks.map(chunk => ({ content: chunk, lines: chunk.split('\n').length }))
ChunkData(chunks) ==
    [c \in 1..Len(chunks) |-> [content |-> chunks[c], lines |-> LineCount(chunks[c])]]

\* Array.prototype.sort((a, b) => a.line - b.line): stable, by line
RankByLine(s, k) ==
    Cardinality({j \in 1..Len(s) :
                    \/ s[j].line < s[k].line
                    \/ s[j].line = s[k].line /\ j < k}) + 1

SortByLine(s) ==
    [p \in 1..Len(s) |-> s[CHOOSE k \in 1..Len(s) : RankByLine(s, k) = p]]

\* result.messages.map(...) of mergeChunkResults
AdjustedMessages(messages, lineOffset) ==
    [k \in 1..Len(messages) |->
        [messages[k] EXCEPT
            !.line = @ + lineOffset,
            !.endLine = IF @ # NoLine THEN @ + lineOffset ELSE NoLine]]

\* the loop of mergeChunkResults from item k on
RECURSIVE MergedFrom(_, _, _)
MergedFrom(results, k, lineOffset) ==
    IF k > Len(results) THEN <<>>
    ELSE AdjustedMessages(results[k].result.messages, lineOffset)
         \o MergedFrom(results, k + 1, lineOffset + results[k].lines)

mergeChunkResults(results) ==
    IF Len(results) = 0 THEN [messages |-> <<>>]
    ELSE [messages |-> SortByLine(MergedFrom(results, 1, 0))]

\* the analyzer handed in as processFunction: one finding for every line a
\* rule objects to, in line order; a sentence-length finding carries an
\* endLine, a no-doubled-joshi finding has none
AllRules == <<"sentence-length", "no-doubled-joshi">>

FlaggedLines(text) ==
    {i \in 1..Len(text) : \E j \in 1..Len(AllRules) : RuleFlags(AllRules[j], text[i])}

RuleOf(line) ==
    AllRules[CHOOSE j \in 1..Len(AllRules) : RuleFlags(AllRules[j], line)]

kernelLint(text) ==
    LET at == Ascending(FlaggedLines(text)) IN
    [messages |->
        [p \in 1..Len(at) |->
            [line |-> at[p],
             endLine |-> IF RuleOf(text[at[p]]) = "sentence-length" THEN at[p] ELSE NoLine,
             ruleId |-> RuleOf(text[at[p]])]]]

\* the line threshold under which processWithKuromojiOptimization does not chunk
SmallFileLines == 1000

\* a processWithKuromojiOptimization(content, processFunction, strategy) call.
\* pc: "pick" (the caller has yet to choose the strategy), "new", "whole" (awaiting the analyzer on the whole text), "chunk"
\* (awaiting the analyzer or the timer of chunk i), "done".
\* chunkData, results: the loop's arrays.  out: "returned" or "error".
\* History: selected (the strategy is getOptimalStrategy's), chunked (the
\* chunk branch was taken), calls (the analyzer calls:
\* chunk index or 0, the time the wait began and ended, the delay of its
\* timer, how it ended), failures, early, waits (counters of the bounds).
NewProc(content, strategy) ==
    [pc |-> "pick", content |-> content, strategy |-> strategy, selected |-> FALSE,
     i |-> 0,
     chunkData |-> <<>>, results |-> <<>>, out |-> "none", messages |-> <<>>, chunked |-> FALSE,
     calls |-> <<>>, failures |-> 0, early |-> 0, waits |-> 0]

NoProc == NewProc(<<"fine">>, STRATEGIES[1])

\* a createProcessingChunks(content, chunkSize) call and what it returned
NoSplit == [content |-> <<"fine">>, chunkSize |-> 1, done |-> FALSE, chunks |-> <<>>]

\* DifferentialProcessor.previousResults = new Map()
NoSnapshots == [path \in {} |-> [content |-> <<>>, messages |-> <<>>]]

(***************************************************************************)
(* LRUCache (utils/MemoryManager.ts).  The nodes are objects: a node is    *)
(* named by its place in the sequence of the nodes created so far, and     *)
(* NoNode is an undefined head, tail, prev or next.  A size is counted in  *)
(* the size of one character of a string, 2 / (1024 * 1024) MB.            *)
(***************************************************************************)
NoNode == 0

LruKeys == {"a", "b", "c"}

\* options.maxSize, options.maxMemoryMB, options.ttl
LruMaxSize == 2

LruMaxMemory == 3

LruTtl == 1000

\* a string of n characters
Text(n) == [i \in 1 .. n |-> "x"]

\* the values stored: two that fit together, and one larger than maxMemoryMB
LruValues == {Text(1), Text(2), Text(LruMaxMemory + 1)}

calculateSize(value) == Len(value)

\* new LRUNode(key, value, size) at time t
LRUNode(key, value, size, t) ==
    [key |-> key, value |-> value, size |-> size, timestamp |-> t,
     prev |-> NoNode, next |-> NoNode]

\* the cache after construction.  cache is the Map in insertion order; hung
\* tells that a call has entered a loop it never leaves; used is history, the
\* keys held from the most to the least recently set or read
NewLru ==
    [nodes |-> <<>>, cache |-> <<>>, head |-> NoNode, tail |-> NoNode,
     currentSize |-> 0, currentMemoryMB |-> 0, hung |-> FALSE, used |-> <<>>]

\* this.cache.has(key), this.cache.get(key)
LruHolds(c, key) == \E i \in DOMAIN c.cache : c.cache[i].key = key

LruNodeOf(c, key) == c.cache[CHOOSE i \in DOMAIN c.cache : c.cache[i].key = key].node

Without(seq, key) == SelectSeq(seq, LAMBDA k : k # key)

\* the node is unlinked; its own prev and next are left as they are
removeNode(c, node) ==
    LET c1 == IF c.nodes[node].prev # NoNode
              THEN [c EXCEPT !.nodes[c.nodes[node].prev].next = c.nodes[node].next]
              ELSE [c EXCEPT !.head = c.nodes[node].next]
    IN IF c1.nodes[node].next # NoNode
       THEN [c1 EXCEPT !.nodes[c1.nodes[node].next].prev = c1.nodes[node].prev]
       ELSE [c1 EXCEPT !.tail = c1.nodes[node].prev]

\* the node is put before the head; its own prev is left as it is
addToHead(c, node) ==
    IF c.head = NoNode
    THEN [c EXCEPT !.head = node, !.tail = node]
    ELSE LET c1 == [c EXCEPT !.nodes[node].next = c.head]
             c2 == [c1 EXCEPT !.nodes[c1.head].prev = node]
         IN [c2 EXCEPT !.head = node]

moveToHead(c, node) == addToHead(removeNode(c, node), node)

\* remove(key)
LruRemoved(c, key) ==
    IF ~LruHolds(c, key) THEN c
    ELSE LET node == LruNodeOf(c, key)
             c1 == removeNode(c, node)
         IN [c1 EXCEPT
               !.cache = SelectSeq(c.cache, LAMBDA e : e.key # key),
               !.currentSize = c.currentSize - 1,
               !.currentMemoryMB = c.currentMemoryMB - c.nodes[node].size,
               !.used = Without(c.used, key)]

\* evictLRU(count)
RECURSIVE evictLRU(_, _)
evictLRU(c, count) ==
    IF count <= 0 THEN c
    ELSE evictLRU(IF c.tail # NoNode THEN LruRemoved(c, c.nodes[c.tail].key) ELSE c,
                  count - 1)

\* while (currentSize >= maxSize) evictLRU(1): a round that changes nothing
\* is followed by the same round for ever
RECURSIVE EvictWhileFull(_)
EvictWhileFull(c) ==
    IF ~(c.currentSize >= LruMaxSize) THEN c
    ELSE LET d == evictLRU(c, 1)
         IN IF d = c THEN [c EXCEPT !.hung = TRUE] ELSE EvictWhileFull(d)

\* while (currentMemoryMB + newSize > maxMemoryMB) evictLRU(1)
RECURSIVE EvictWhileHeavy(_, _)
EvictWhileHeavy(c, newSize) ==
    IF ~(c.currentMemoryMB + newSize > LruMaxMemory) THEN c
    ELSE LET d == evictLRU(c, 1)
         IN IF d = c THEN [c EXCEPT !.hung = TRUE] ELSE EvictWhileHeavy(d, newSize)

evictIfNecessary(c, newSize) ==
    LET c1 == EvictWhileFull(c)
    IN IF c1.hung THEN c1 ELSE EvictWhileHeavy(c1, newSize)

\* set(key, value) at time t
LruSetTo(c, key, value, t) ==
    LET size == calculateSize(value)
        c1 == IF LruHolds(c, key) THEN LruRemoved(c, key) ELSE c
        c2 == evictIfNecessary(c1, size)
        node == Len(c2.nodes) + 1
        c3 == addToHead([c2 EXCEPT !.nodes = Append(@, LRUNode(key, value, size, t))],
                        node)
    IN IF c2.hung THEN c2
       ELSE [c3 EXCEPT
               !.cache = Append(@, [key |-> key, node |-> node]),
               !.currentSize = @ + 1,
               !.currentMemoryMB = @ + size,
               !.used = <<key>> \o @]

LruExpired(c, node, t) == t - c.nodes[node].timestamp > LruTtl

\* get(key) at time t
LruAfterGet(c, key, t) ==
    IF ~LruHolds(c, key) THEN c
    ELSE IF LruExpired(c, LruNodeOf(c, key), t) THEN LruRemoved(c, key)
    ELSE [moveToHead(c, LruNodeOf(c, key)) EXCEPT !.used = <<key>> \o Without(@, key)]

\* has(key) at time t
LruAfterHas(c, key, t) ==
    IF LruHolds(c, key) /\ LruExpired(c, LruNodeOf(c, key), t)
    THEN LruRemoved(c, key)
    ELSE c

\* the keys are removed one after the other
RECURSIVE RemoveAll(_, _)
RemoveAll(c, keys) ==
    IF keys = <<>> THEN c ELSE RemoveAll(LruRemoved(c, Head(keys)), Tail(keys))

\* cleanup() at time t
LruCleaned(c, t) ==
    LET expired == SelectSeq(c.cache, LAMBDA e : LruExpired(c, e.node, t))
        expiredKeys == [i \in DOMAIN expired |-> expired[i].key]
        c1 == RemoveAll(c, expiredKeys)
    IN IF c1.currentMemoryMB * 10 > LruMaxMemory * 8
       THEN evictLRU(c1, c1.currentSize \div 5)
       ELSE c1

\* clear()
LruCleared(c) ==
    [c EXCEPT !.cache = <<>>, !.head = NoNode, !.tail = NoNode,
              !.currentSize = 0, !.currentMemoryMB = 0, !.used = <<>>]

\* no processor call is under way
ProcIdle ==
    /\ proc = NoProc
    /\ chunkTimer = NoTimer
    /\ split = NoSplit
    /\ previousResults = NoSnapshots
    /\ dcalls = <<>>
    /\ loads = <<>>
    /\ events = <<>>
    /\ lru = NewLru

(***************************************************************************)
(* utils/DifferentialProcessor.ts                                          *)
(*                                                                         *)
(* A region is [start, end], both 0-based line indices, end included.      *)
(* A finding's line is 1-based.                                            *)
(***************************************************************************)
ContextLines == 5

\* currentRegion = null
NoRegion == [start |-> -1, end |-> -1]

\* lines[i] || '' with i 0-based: a missing line reads as an empty one
LineAt(lines, i) == IF i < Len(lines) THEN lines[i + 1] ELSE ""

Larger(a, b) == IF a > b THEN a ELSE b

\* the loop of findChangedRegions from index i on, and the push after it
RECURSIVE RegionsFrom(_, _, _, _, _)
RegionsFrom(oldLines, newLines, i, currentRegion, changedRegions) ==
    IF i >= Larger(Len(oldLines), Len(newLines))
    THEN IF currentRegion # NoRegion THEN Append(changedRegions, currentRegion)
         ELSE changedRegions
    ELSE IF LineAt(oldLines, i) # LineAt(newLines, i)
    THEN IF currentRegion = NoRegion
         THEN RegionsFrom(oldLines, newLines, i + 1,
                          [start |-> Larger(0, i - ContextLines), end |-> i + ContextLines],
                          changedRegions)
         ELSE RegionsFrom(oldLines, newLines, i + 1,
                          [currentRegion EXCEPT !.end = i + ContextLines], changedRegions)
    ELSE IF currentRegion # NoRegion /\ i > currentRegion.end
    THEN RegionsFrom(oldLines, newLines, i + 1, NoRegion,
                     Append(changedRegions, currentRegion))
    ELSE RegionsFrom(oldLines, newLines, i + 1, currentRegion, changedRegions)

\* the loop of mergeOverlappingRegions from regions[i] on (i 1-based here)
RECURSIVE MergedRegionsFrom(_, _, _)
MergedRegionsFrom(regions, i, merged) ==
    IF i > Len(regions) THEN merged
    ELSE LET current == regions[i]
             last == merged[Len(merged)]
         IN IF current.start <= last.end
            THEN MergedRegionsFrom(regions, i + 1,
                     [merged EXCEPT ![Len(merged)].end = Larger(last.end, current.end)])
            ELSE MergedRegionsFrom(regions, i + 1, Append(merged, current))

mergeOverlappingRegions(regions) ==
    IF Len(regions) = 0 THEN <<>>
    ELSE MergedRegionsFrom(regions, 2, <<regions[1]>>)

findChangedRegions(oldContent, newContent) ==
    mergeOverlappingRegions(RegionsFrom(oldContent, newContent, 0, NoRegion, <<>>))

\* an extraction that hands over the whole text
extractWholeContent(content, regions) == content

\* the lines extractRegionContent collects from region k on
RECURSIVE ExtractedFrom(_, _, _)
ExtractedFrom(lines, regions, k) ==
    IF k > Len(regions) THEN <<>>
    ELSE Slice(lines, regions[k].start, regions[k].end + 1)
         \o ExtractedFrom(lines, regions, k + 1)

\* extractedLines.join('\n'): no lines at all join to the empty text, which
\* has one empty line
extractRegionContent(content, regions) ==
    LET extractedLines == ExtractedFrom(content, regions, 1) IN
    IF extractedLines = <<>> THEN <<"">> ELSE extractedLines

\* the loop of adjustLineNumbers over the regions for one message line
RECURSIVE AdjustedLine(_, _, _)
AdjustedLine(line, regions, k) ==
    IF k > Len(regions) THEN line
    ELSE IF line <= regions[k].end - regions[k].start + 1 THEN regions[k].start + line
    ELSE AdjustedLine(line, regions, k + 1)

adjustLineNumbers(messages, regions) ==
    [m \in 1..Len(messages) |->
        LET adjustedLine == AdjustedLine(messages[m].line, regions, 1) IN
        [messages[m] EXCEPT
            !.line = adjustedLine,
            !.endLine = IF @ # NoLine THEN adjustedLine ELSE NoLine]]

\* changedRegions.some(region => line >= region.start && line <= region.end)
InSomeRegion(line, changedRegions) ==
    \E k \in 1..Len(changedRegions) :
        line >= changedRegions[k].start /\ line <= changedRegions[k].end

\* Array.prototype.filter: the elements at the kept indices, in order
Filtered(s, keep) ==
    LET at == Ascending(keep) IN [p \in 1..Len(at) |-> s[at[p]]]

\* unchangedMessages of mergeResults
UnchangedMessages(oldMessages, changedRegions) ==
    Filtered(oldMessages,
             {m \in 1..Len(oldMessages) : ~InSomeRegion(oldMessages[m].line, changedRegions)})

mergeResults(oldMessages, newMessages, changedRegions) ==
    SortByLine(UnchangedMessages(oldMessages, changedRegions) \o newMessages)

\* changedRegions.reduce((sum, region) => sum + (region.end - region.start + 1), 0)
RECURSIVE ChangedLines(_, _)
ChangedLines(changedRegions, k) ==
    IF k > Len(changedRegions) THEN 0
    ELSE (changedRegions[k].end - changedRegions[k].start + 1)
         + ChangedLines(changedRegions, k + 1)

\* a test that never finds a majority
MajorityNever(changedRegions, newContent) == FALSE

\* changedLines / totalLines > 0.5
MajorityChanged(changedRegions, newContent) ==
    2 * ChangedLines(changedRegions, 1) > LineCount(newContent)

\* the lintFunction handed in: the findings of the analyzer on the text
lintFunction(content) == kernelLint(content).messages

NoSnapshot == [content |-> <<>>, messages |-> <<>>]

\* a snapshot that stores no findings
SnapshotSetNoFindings(snapshots, filePath, content, messages) ==
    [x \in DOMAIN snapshots \cup {filePath} |->
        IF x = filePath THEN [content |-> content, messages |-> <<>>]
        ELSE snapshots[x]]

\* previousResults.set(filePath, {content, messages, timestamp})
SnapshotSet(snapshots, filePath, content, messages) ==
    [x \in DOMAIN snapshots \cup {filePath} |->
        IF x = filePath THEN [content |-> content, messages |-> messages]
        ELSE snapshots[x]]

\* a processChangedRegionsOnly(filePath, newContent, lintFunction) call up to
\* its await.  mode: "first" (no snapshot), "noop" (no changed region),
\* "full" (majority change), "region" (minority change); pc: "await" (the
\* analyzer call is unresolved) or "done"; cached: the snapshot read at the
\* start; sent: the text given to the analyzer.
\* History: had (a snapshot existed), fresh (the analyzer's findings after
\* adjustLineNumbers), kept (unchangedMessages of mergeResults), out and
\* messages (what the call returned, or "error"), overlaps (the calls
\* awaiting the analyzer when this one began).
Awaiting(log) == {k \in DOMAIN log : log[k].pc = "await"}

StartCall(snapshots, filePath, newContent, log) ==
    LET had == filePath \in DOMAIN snapshots
        cached == IF had THEN snapshots[filePath] ELSE NoSnapshot
        changedRegions == IF had THEN findChangedRegions(cached.content, newContent)
                          ELSE <<>>
        call == [pc |-> "await", path |-> filePath, content |-> newContent,
                 mode |-> "first", had |-> had, cached |-> cached,
                 regions |-> changedRegions, sent |-> newContent,
                 fresh |-> <<>>, kept |-> <<>>,
                 out |-> "none", messages |-> <<>>, threw |-> FALSE,
                 overlaps |-> Awaiting(log)]
    IN IF ~had THEN call
       ELSE IF Len(changedRegions) = 0
       THEN [call EXCEPT !.pc = "done", !.mode = "noop", !.sent = <<>>,
                         !.out = "returned", !.messages = cached.messages]
       ELSE IF MajorityChanged(changedRegions, newContent)
       THEN [call EXCEPT !.mode = "full"]
       ELSE [call EXCEPT !.mode = "region",
                         !.sent = extractRegionContent(newContent, changedRegions)]

\* the log entry of a clearCache(filePath) call
ClearEntry(filePath, log) ==
    [pc |-> "done", path |-> filePath, content |-> <<>>, mode |-> "clear",
     had |-> FALSE, cached |-> NoSnapshot, regions |-> <<>>, sent |-> <<>>,
     fresh |-> <<>>, kept |-> <<>>,
     out |-> "returned", messages |-> <<>>, threw |-> FALSE,
     overlaps |-> Awaiting(log)]

\* the error is caught and an empty list is returned
RejectedSwallowed(call) == [call EXCEPT !.pc = "done", !.out = "returned"]

\* the call once the analyzer has rejected: no path has a try block, so the
\* await throws and the call rejects
Rejected(call) == [call EXCEPT !.pc = "done", !.out = "error"]

\* the call once the analyzer has resolved with `analyzed` (regionMessages
\* or messages in the code)
Resolved(call, analyzed) ==
    IF call.mode = "region"
    THEN LET adjustedMessages == adjustLineNumbers(analyzed, call.regions) IN
         [call EXCEPT
            !.pc = "done", !.out = "returned",
            !.fresh = adjustedMessages,
            !.kept = UnchangedMessages(call.cached.messages, call.regions),
            !.messages = mergeResults(call.cached.messages, adjustedMessages,
                                      call.regions)]
    ELSE [call EXCEPT !.pc = "done", !.out = "returned",
                      !.fresh = analyzed, !.messages = analyzed]

(***************************************************************************)
(* rules/RuleLoader.ts                                                     *)
(*                                                                         *)
(* A rule entry is [ruleId, rule, options]; the ruleId `prefix/id` is held  *)
(* as the pair <<prefix, id>>.  The presets are imported packages: each is  *)
(* a sample of entries of preset.rules, with whether extractRuleFunction    *)
(* finds a function in the entry and what preset.rulesConfig holds for it   *)
(* ("unset", "false" or "object").  The loaders have no await: each runs    *)
(* to its return when loadRules calls it, and never rejects, because its    *)
(* body is inside try/catch.                                               *)
(***************************************************************************)
\* a loaded rule module: its typeof, and the typeof of its `default` and
\* `linter` properties
Module(type, default, linter) ==
    [type |-> type, default |-> default, linter |-> linter]

\* a rule function; a module object whose default export is the function; a
\* module object with a linter function; a module object whose default export
\* is itself a module object; a string
PlainFunction == Module("function", "undefined", "undefined")

DefaultExport == Module("object", "function", "undefined")

LinterObject == Module("object", "undefined", "function")

WrappedTwice == Module("object", "object", "undefined")

NotAModule == Module("string", "undefined", "undefined")

\* a module object without a function is returned as it is
extractAnyObject(rule) ==
    IF rule.type = "function" \/ "function" \in {rule.default, rule.linter}
    THEN "function"
    ELSE IF rule.type = "object" THEN "object" ELSE "null"

\* RuleLoader.extractRuleFunction: the typeof of what it returns, which is the
\* module, its default or its linter when that is a function, or else null
extractRuleFunction(rule) ==
    IF rule.type = "function" THEN "function"
    ELSE IF rule.type = "object" /\ rule.default = "function" THEN "function"
    ELSE IF rule.type = "object" /\ rule.linter = "function" THEN "function"
    ELSE "null"

PresetEntry(id, module, config) ==
    [id |-> id, module |-> module, config |-> config]

\* the presets in the order loadRules pushes their tasks.  style is how the
\* loader derives the options: "ternary" (false, the object, or true),
\* "raw" (the config as it is), "orTrue" (the config || true)
Presets ==
    << [setting |-> "useTechnicalWritingPreset", prefix |-> "technical-writing",
        style |-> "ternary",
        entries |-> << PresetEntry("sentence-length", PlainFunction, "object"),
                       PresetEntry("no-exclamation-question-mark", LinterObject, "unset") >>],
       [setting |-> "useSpacingPreset", prefix |-> "spacing",
        style |-> "ternary",
        entries |-> << PresetEntry("ja-space-between-half-and-full-width", DefaultExport, "object"),
                       PresetEntry("ja-no-space-around-parentheses", NotAModule, "unset") >>],
       [setting |-> "useCustomRules", prefix |-> "ai-writing",
        style |-> "raw",
        entries |-> << PresetEntry("no-ai-list-formatting", PlainFunction, "unset"),
                       PresetEntry("no-ai-hype-expressions", WrappedTwice, "unset") >>],
       [setting |-> "useJtfStylePreset", prefix |-> "jtf-style",
        style |-> "orTrue",
        entries |-> << PresetEntry("1.1.1", PlainFunction, "false"),
                       PresetEntry("1.1.3", PlainFunction, "unset") >>] >>

\* the table of loadIndividualRules: <<setting, name, module>>
IndividualRules ==
    << <<"useNoDroppingI", "@textlint-ja/textlint-rule-no-dropping-i",
          DefaultExport>>,
       <<"useNoInsertDroppingSa", "@textlint-ja/textlint-rule-no-insert-dropping-sa",
          PlainFunction>>,
       <<"useNoDoubledJoshi", "no-doubled-joshi",
          PlainFunction>>,
       <<"useNoMixedZenkakuHankakuAlphabet", "no-mixed-zenkaku-and-hankaku-alphabet",
          PlainFunction>>,
       <<"usePreferTariTari", "prefer-tari-tari",
          PlainFunction>>,
       <<"useWriteGood", "write-good",
          PlainFunction>>,
       <<"useJaNoOrthographicVariants", "ja-no-orthographic-variants",
          PlainFunction>>,
       <<"useNoMixDearuDesumasu", "no-mix-dearu-desumasu",
          PlainFunction>>,
       <<"useNoStartDuplicatedConjunction", "no-start-duplicated-conjunction",
          PlainFunction>>,
       <<"useDateWeekdayMismatch", "date-weekday-mismatch",
          PlainFunction>> >>

\* what throws during one loadRules call: nothing, or the handling of entry
\* `at` of the preset `source`, or extractRuleFunction for rule `at` of the
\* table of individual rules (source "additional")
NoFault == [source |-> "none", at |-> 0]

\* the options a preset loader gives an entry
RuleOptions(style, config) ==
    CASE style = "ternary" -> (IF config = "object" THEN "object" ELSE "true")
      [] style = "raw"     -> (IF config = "unset" THEN "undefined" ELSE config)
      [] OTHER             -> (IF config = "unset" THEN "true" ELSE config)

\* the forEach of a preset loader from entry j on; it ends at entry `stop`,
\* where the throw leaves the try block, or after the last entry
RECURSIVE PresetRulesFrom(_, _, _)
PresetRulesFrom(p, j, stop) ==
    IF j > Len(p.entries) \/ j >= stop THEN <<>>
    ELSE LET e == p.entries[j]
         IN (IF e.config # "false" /\ extractRuleFunction(e.module) # "null"
             THEN <<[ruleId |-> <<p.prefix, e.id>>,
                     rule |-> extractRuleFunction(e.module),
                     options |-> RuleOptions(p.style, e.config)]>>
             ELSE <<>>)
            \o PresetRulesFrom(p, j + 1, stop)

\* loadTechnicalWritingPreset, loadSpacingPreset, loadAiWritingPreset,
\* loadJtfStylePreset: the catch logs, and the rules pushed before the throw
\* are returned
loadPreset(p, fault) ==
    PresetRulesFrom(p, 1, IF fault.source = p.prefix THEN fault.at
                          ELSE Len(p.entries) + 1)

\* loadIndividualRules: a rule that is switched off, whose
\* extractRuleFunction throws or in whose module no function is found is
\* passed over
RECURSIVE IndividualRulesFrom(_, _, _)
IndividualRulesFrom(s, i, fault) ==
    IF i > Len(IndividualRules) THEN <<>>
    ELSE (IF IndividualRules[i][1] \in s
             /\ ~(fault.source = "additional" /\ fault.at = i)
             /\ extractRuleFunction(IndividualRules[i][3]) # "null"
          THEN <<[ruleId |-> <<"additional", IndividualRules[i][2]>>,
                  rule |-> extractRuleFunction(IndividualRules[i][3]),
                  options |-> "true"]>>
          ELSE <<>>)
         \o IndividualRulesFrom(s, i + 1, fault)

loadIndividualRules(s, fault) == IndividualRulesFrom(s, 1, fault)

\* presetTasks of loadRules: one task for each preset switched on, then the
\* task of the individual rules; value is what the task's promise holds
RECURSIVE PresetTasksFrom(_, _, _)
PresetTasksFrom(s, i, fault) ==
    IF i > Len(Presets)
    THEN <<[source |-> "additional", value |-> loadIndividualRules(s, fault)]>>
    ELSE (IF Presets[i].setting \in s
          THEN <<[source |-> Presets[i].prefix,
                  value |-> loadPreset(Presets[i], fault)]>>
          ELSE <<>>)
         \o PresetTasksFrom(s, i + 1, fault)

presetTasks(s, fault) == PresetTasksFrom(s, 1, fault)

\* the results read in the order their promises settled
RECURSIVE CollectAsSettled(_, _)
CollectAsSettled(tasks, order) ==
    IF order = <<>> THEN <<>>
    ELSE tasks[Head(order)].value \o CollectAsSettled(tasks, Tail(order))

\* results.forEach of loadRules: Promise.allSettled gives the results at the
\* index of their task, whatever the order the promises settled in
RECURSIVE CollectFrom(_, _)
CollectFrom(tasks, i) ==
    IF i > Len(tasks) THEN <<>>
    ELSE tasks[i].value \o CollectFrom(tasks, i + 1)

CollectResults(tasks, order) == CollectFrom(tasks, 1)

\* RuleLoader.validateRules
validateRules(rules) ==
    SelectSeq(rules, LAMBDA r : r.rule # "null" /\ r.rule \in {"function", "object"})

\* the memo test of loadRules answers that nothing is stored
MemoNeverHolds(memo, key, t) ==
    [map |-> memo, found |-> FALSE, value |-> <<>>]

\* the memo test of loadRules: rulesCache.has(key), then rulesCache.get(key);
\* a stored list is truthy even when it is empty
MemoLookup(memo, key, t) ==
    LET h == CacheHas(memo, RulesTtl, key, t)
    IN IF h.ret THEN CacheGet(h.map, RulesTtl, key, t)
       ELSE [map |-> h.map, found |-> FALSE, value |-> <<>>]

(***************************************************************************)
(* SpecCache: a Cache constructed with the default ttl.                    *)
(***************************************************************************)
DefaultTtl == 300000

CacheKeys == {"k1", "k2"}

CacheHashes == {NoHash, "h1", "h2"}

CacheValues == {<<"m1">>, <<"m2">>}

\* the clock advances by one millisecond or by half a ttl
HalfTtl == DefaultTtl \div 2

MaxShortSteps == 1

MaxLongSteps == 2

\* the record of a call: had/old are the entry the key had before the call
OpRecord(op, m, k, h, ret, v, t) ==
    [op |-> op, key |-> k, hash |-> h, ret |-> ret, value |-> v,
     had |-> (k \in DOMAIN m), old |-> IF k \in DOMAIN m THEN m[k] ELSE NoEntry,
     at |-> t]

NoOp == OpRecord("none", EmptyMap, "k1", NoHash, FALSE, <<>>, 0)

CacheInit ==
    /\ now = 0
    /\ cache = EmptyMap
    /\ lastOp = NoOp
    /\ SchedIdle
    /\ ProcIdle

CacheDoSet(k, v, h) ==
    /\ cache' = CacheSet(cache, k, v, h, now)
    /\ lastOp' = OpRecord("set", cache, k, h, TRUE, v, now)
    /\ UNCHANGED <<now, schedVars, procVars>>

CacheDoGet(k) ==
    LET r == CacheGet(cache, DefaultTtl, k, now) IN
    /\ cache' = r.map
    /\ lastOp' = OpRecord("get", cache, k, NoHash, r.found, r.value, now)
    /\ UNCHANGED <<now, schedVars, procVars>>

CacheDoHas(k) ==
    LET r == CacheHas(cache, DefaultTtl, k, now) IN
    /\ cache' = r.map
    /\ lastOp' = OpRecord("has", cache, k, NoHash, r.ret, <<>>, now)
    /\ UNCHANGED <<now, schedVars, procVars>>

CacheDoIsValidByHash(k, h) ==
    LET r == CacheIsValidByHash(cache, DefaultTtl, k, h, now) IN
    /\ cache' = r.map
    /\ lastOp' = OpRecord("isValidByHash", cache, k, h, r.ret, <<>>, now)
    /\ UNCHANGED <<now, schedVars, procVars>>

CacheDoInvalidate(k) ==
    /\ cache' = MapDelete(cache, k)
    /\ lastOp' = OpRecord("invalidate", cache, k, NoHash, TRUE, <<>>, now)
    /\ UNCHANGED <<now, schedVars, procVars>>

CacheDoClear ==
    /\ cache' = EmptyMap
    /\ lastOp' = [NoOp EXCEPT !.op = "clear", !.at = now]
    /\ UNCHANGED <<now, schedVars, procVars>>

CacheDoGetStats ==
    /\ cache' = CacheCleanup(cache, DefaultTtl, now)
    /\ lastOp' = [NoOp EXCEPT !.op = "getStats", !.at = now]
    /\ UNCHANGED <<now, schedVars, procVars>>

CacheShortStep ==
    /\ now % HalfTtl < MaxShortSteps
    /\ now' = now + 1
    /\ UNCHANGED <<cacheVars, schedVars, procVars>>

CacheLongStep ==
    /\ now \div HalfTtl < MaxLongSteps
    /\ now' = now + HalfTtl
    /\ UNCHANGED <<cacheVars, schedVars, procVars>>

CacheNext ==
    \/ \E k \in CacheKeys, v \in CacheValues, h \in CacheHashes : CacheDoSet(k, v, h)
    \/ \E k \in CacheKeys : CacheDoGet(k)
    \/ \E k \in CacheKeys : CacheDoHas(k)
    \/ \E k \in CacheKeys, h \in CacheHashes \ {NoHash} : CacheDoIsValidByHash(k, h)
    \/ \E k \in CacheKeys : CacheDoInvalidate(k)
    \/ CacheDoClear
    \/ CacheDoGetStats
    \/ CacheShortStep
    \/ CacheLongStep

SpecCache == CacheInit /\ [][CacheNext]_vars

(***************************************************************************)
(* Spec: the lint scheduler of TextlintHighlightPlugin.                    *)
(*                                                                         *)
(* Timers are urgent: a timer that is due fires before anything else       *)
(* happens and before the clock moves on.  Every other callback (an idle   *)
(* callback, the resolution of vault.read, of the digest, of the analyzer, *)
(* of saveData) runs at an arbitrary later moment.  The code between two   *)
(* awaits that only wait for already settled promises runs as one step.    *)
(***************************************************************************)
MaxRuns == 2

MaxBurst == 3

MaxSaves == 1

TickMs == 100

MaxTicks == 7

LongIdle == ResultTtl + 1

MaxIdles == 1

NoTimerDue == \A tm \in timers : tm.at > now

DebounceTimers == {tm \in timers : tm.kind = "debounce"}

\* the lint requests already made or still to come from a pending callback
Pending ==
    Len(runs) + Cardinality(DebounceTimers) + (IF queued THEN 1 ELSE 0) + saving

BothEmpty(rc, lc) == rc = EmptyMap /\ lc = EmptyMap

\* lintCurrentFileImmediately: runWhenIdle(() => this.lintCurrentFile())
lintCurrentFileImmediately(rs, origin, cleared) ==
    Append(rs, NewRun(origin, rs, cleared))

\* a debouncer without its clearTimeout
DebouncerCallNoClear(tms, id, t) ==
    [timers |-> tms \cup {[kind |-> "debounce", at |-> t + DebounceDelay]},
     timeoutId |-> t + DebounceDelay]

\* the function createOptimizedDebouncer returns, called at time t
DebouncerCall(tms, id, t) ==
    [timers |-> (tms \ {[kind |-> "debounce", at |-> id]})
                \cup {[kind |-> "debounce", at |-> t + DebounceDelay]},
     timeoutId |-> t + DebounceDelay]

\* history: a trigger continues the burst when it comes less than the
\* debounce delay after the previous trigger, otherwise it opens a new one
BurstAfterTrigger(b, t) ==
    IF b.n > 0 /\ t - b.last < DebounceDelay
    THEN [b EXCEPT !.n = @ + 1, !.last = t]
    ELSE [n |-> 1, last |-> t, fired |-> 0, firedAt |-> 0]

\* this.optimizedDebouncer?.()
Debounced ==
    /\ NoTimerDue
    /\ DebounceTimers # {} \/ Pending < MaxRuns
    /\ BurstAfterTrigger(burst, now).n <= MaxBurst
    /\ LET d == DebouncerCall(timers, timeoutId, now) IN
         /\ timers' = d.timers
         /\ timeoutId' = d.timeoutId
    /\ burst' = BurstAfterTrigger(burst, now)

\* vault 'modify' of the active file: the file has a new text
VaultModify(t) ==
    /\ t # docText
    /\ docText' = t
    /\ quietFrom' = Len(runs) + 1
    /\ Debounced
    /\ UNCHANGED <<now, cacheVars, procVars, settings, saving, canRun, queued, runs,
                   resultCache, rulesCache, lastProcessedFile, lastContentHash,
                   display>>

\* 'editor-change', 'editor-paste', 'active-leaf-change'
EditorChange ==
    /\ Debounced
    /\ UNCHANGED <<now, cacheVars, procVars, quietFrom, docText, settings, saving, canRun, queued,
                   runs, resultCache, rulesCache, lastProcessedFile,
                   lastContentHash, display>>

\* the debouncer's timer expires: callback.apply(null, lastArgs)
DebounceFire ==
    \E tm \in DebounceTimers :
        /\ tm.at <= now
        /\ Len(runs) < MaxRuns
        /\ timers' = timers \ {tm}
        /\ runs' = lintCurrentFileImmediately(runs, "debounce", BothEmpty(resultCache, rulesCache))
        /\ burst' = [burst EXCEPT !.fired = @ + 1, !.firedAt = now]
        /\ UNCHANGED <<now, cacheVars, procVars, quietFrom, docText, settings, saving, timeoutId,
                       canRun, queued, resultCache, rulesCache,
                       lastProcessedFile, lastContentHash, display>>

\* this.throttledLinter?.(): 'file-open' and the save keystroke
HighPriority ==
    /\ NoTimerDue
    /\ IF ~canRun
       THEN /\ queued \/ Pending < MaxRuns
            /\ queued' = TRUE
            /\ UNCHANGED <<canRun, runs, timers>>
       ELSE /\ Pending < MaxRuns
            /\ canRun' = FALSE
            /\ runs' = lintCurrentFileImmediately(runs, "throttle", BothEmpty(resultCache, rulesCache))
            /\ timers' = timers \cup {[kind |-> "throttle", at |-> now + ThrottleInterval]}
            /\ UNCHANGED queued
    /\ UNCHANGED <<now, cacheVars, procVars, quietFrom, docText, settings, saving, timeoutId,
                   resultCache, rulesCache, lastProcessedFile, lastContentHash,
                   display, burst>>

\* the throttler's timer expires
ThrottleFire ==
    \E tm \in timers :
        /\ tm.kind = "throttle"
        /\ tm.at <= now
        /\ timers' = timers \ {tm}
        /\ canRun' = TRUE
        /\ IF queued
           THEN /\ queued' = FALSE
                /\ runs' = lintCurrentFileImmediately(runs, "throttle", BothEmpty(resultCache, rulesCache))
           ELSE UNCHANGED <<queued, runs>>
        /\ UNCHANGED <<now, cacheVars, procVars, quietFrom, docText, settings, saving, timeoutId,
                       resultCache, rulesCache, lastProcessedFile,
                       lastContentHash, display, burst>>

\* the run button of the result view
RunButton ==
    /\ NoTimerDue
    /\ Pending < MaxRuns
    /\ runs' = lintCurrentFileImmediately(runs, "button", BothEmpty(resultCache, rulesCache))
    /\ UNCHANGED <<now, cacheVars, procVars, quietFrom, docText, settings, saving, timers, timeoutId,
                   canRun, queued, resultCache, rulesCache, lastProcessedFile,
                   lastContentHash, display, burst>>

\* a toggle of the settings tab: the setting changes and saveSettings starts
\* (await this.saveData)
ToggleSetting(x) ==
    /\ NoTimerDue
    /\ saving < MaxSaves
    /\ Pending < MaxRuns
    /\ settings' = IF x \in settings THEN settings \ {x} ELSE settings \cup {x}
    /\ saving' = saving + 1
    /\ quietFrom' = Len(runs) + 1
    /\ UNCHANGED <<now, cacheVars, procVars, docText, timers, timeoutId, canRun, queued,
                   runs, resultCache, rulesCache, lastProcessedFile,
                   lastContentHash, display, burst>>

\* saveSettings after saveData: clear the caches (contentCache is never
\* written and stays empty), lint at once
SaveSettingsDone ==
    /\ NoTimerDue
    /\ saving > 0
    /\ saving' = saving - 1
    /\ quietFrom' = Len(runs) + 1
    /\ resultCache' = EmptyMap
    /\ rulesCache' = EmptyMap
    /\ runs' = lintCurrentFileImmediately(runs, "settings",
                   BothEmpty(resultCache', rulesCache'))
    /\ UNCHANGED <<now, cacheVars, procVars, docText, settings, timers, timeoutId, canRun,
                   queued, lastProcessedFile, lastContentHash, display, burst>>

\* plugin.clearCache(), the settings tab's cache-clear button
ClearCache ==
    /\ NoTimerDue
    /\ resultCache' = EmptyMap
    /\ rulesCache' = EmptyMap
    /\ lastProcessedFile' = NoFile
    /\ lastContentHash' = NoHash
    /\ quietFrom' = Len(runs) + 1
    /\ UNCHANGED <<now, cacheVars, procVars, docText, settings, saving, timers, timeoutId,
                   canRun, queued, runs, display, burst>>

\* the idle callback of a request runs: lintCurrentFile starts and, having
\* an active markdown file, asks the vault for its text
RunStart(r) ==
    /\ NoTimerDue
    /\ r \in DOMAIN runs
    /\ runs[r].pc = "idle"
    /\ \A q \in 1..(r - 1) : runs[q].pc # "idle"
    /\ runs' = [runs EXCEPT ![r].pc = "read",
                            ![r].early = \E q \in runs[r].inflight : runs[q].pc = "lint"]
    /\ UNCHANGED <<now, cacheVars, procVars, quietFrom, docText, settings, saving, timers, timeoutId,
                   canRun, queued, resultCache, rulesCache, lastProcessedFile,
                   lastContentHash, display, burst>>

\* vault.read resolves with the file's text
RunRead(r) ==
    /\ NoTimerDue
    /\ r \in DOMAIN runs
    /\ runs[r].pc = "read"
    /\ runs' = [runs EXCEPT ![r].pc = "hash", ![r].content = docText]
    /\ UNCHANGED <<now, cacheVars, procVars, quietFrom, docText, settings, saving, timers, timeoutId,
                   canRun, queued, resultCache, rulesCache, lastProcessedFile,
                   lastContentHash, display, burst>>

\* applyResults(messages, file) by run r
Applied(rs, r, messages, text) ==
    [rs EXCEPT ![r].pc = "done", ![r].out = "shown", ![r].msgs = messages,
               ![r].stale = (text # rs[r].content), ![r].quiet = quietFrom,
               ![r].doneAt = now]

\* RuleLoader.loadRules(settings) at time t: the memo after the call and the
\* list returned
loadRules(memo, s, t) ==
    LET key == generateSettingsKey(s)
        h == CacheHas(memo, RulesTtl, key, t)
        g == CacheGet(h.map, RulesTtl, key, t)
        loaded == LoadRuleSources(s)
    IN IF h.ret /\ g.found
       THEN [memo |-> g.map, rules |-> g.value]
       ELSE [memo |-> CacheSet(g.map, key, loaded, NoHash, t), rules |-> loaded]

\* the duplicate-execution check of lintCurrentFile
IsDuplicate(lastFile, lastHash, path, h) == lastFile = path /\ lastHash = h

\* generateContentHash resolves: lintCurrentFile runs from the strategy
\* selection up to the analyzer call (or to its return on a duplicate or a
\* cache hit)
RunCheck(r) ==
    /\ NoTimerDue
    /\ r \in DOMAIN runs
    /\ runs[r].pc = "hash"
    /\ LET h == generateContentHash(runs[r].content)
           key == CacheKey(FilePath, h)
           rs == [runs EXCEPT ![r].hash = h, ![r].snap = settings,
                              ![r].checkAt = now]
           g == CacheGet(resultCache, ResultTtl, key, now)
           v == CacheIsValidByHash(resultCache, ResultTtl, key, h, now)
           g2 == CacheGet(v.map, ResultTtl, key, now)
           l == loadRules(rulesCache, settings, now)
       IN IF IsDuplicate(lastProcessedFile, lastContentHash, FilePath, h)
          THEN /\ resultCache' = g.map
               /\ LET shown == IF g.found THEN g.value ELSE <<>> IN
                    /\ display' = [set |-> TRUE, msgs |-> shown]
                    /\ runs' = Applied([rs EXCEPT ![r].lookup =
                                            IF g.found THEN "hit" ELSE "miss"],
                                       r, shown, docText)
               /\ UNCHANGED <<rulesCache, lastProcessedFile, lastContentHash>>
          ELSE IF v.ret /\ g2.found
          THEN /\ resultCache' = g2.map
               /\ lastProcessedFile' = FilePath
               /\ lastContentHash' = h
               /\ display' = [set |-> TRUE, msgs |-> g2.value]
               /\ runs' = Applied([rs EXCEPT ![r].lookup = "hit"], r, g2.value, docText)
               /\ UNCHANGED rulesCache
          ELSE /\ resultCache' = (IF v.ret THEN g2.map ELSE v.map)
               /\ lastProcessedFile' = FilePath
               /\ lastContentHash' = h
               /\ rulesCache' = l.memo
               /\ runs' = [rs EXCEPT ![r].pc = "lint", ![r].lookup = "miss",
                                     ![r].rules = l.rules, ![r].analyzed = TRUE]
               /\ UNCHANGED display
    /\ UNCHANGED <<now, cacheVars, procVars, quietFrom, docText, settings, saving, timers, timeoutId,
                   canRun, queued, burst>>

\* result.messages.map(...): ruleId defaults to 'unknown'
ToMessages(kernelMessages) ==
    [i \in 1..Len(kernelMessages) |->
        [line |-> kernelMessages[i].line,
         ruleId |-> IF kernelMessages[i].ruleId = "" THEN "unknown"
                    ELSE kernelMessages[i].ruleId]]

\* the analyzer call resolves: cache the messages and apply them
RunLintDone(r) ==
    /\ NoTimerDue
    /\ r \in DOMAIN runs
    /\ runs[r].pc = "lint"
    /\ LET messages == ToMessages(lintText(runs[r].content, runs[r].rules)) IN
         /\ resultCache' = CacheSet(resultCache, CacheKey(FilePath, runs[r].hash),
                                    messages, runs[r].hash, now)
         /\ display' = [set |-> TRUE, msgs |-> messages]
         /\ runs' = Applied(runs, r, messages, docText)
    /\ UNCHANGED <<now, cacheVars, procVars, quietFrom, docText, settings, saving, timers, timeoutId,
                   canRun, queued, rulesCache, lastProcessedFile,
                   lastContentHash, burst>>

\* the analyzer call rejects: the catch block logs and shows a Notice
RunLintThrow(r) ==
    /\ NoTimerDue
    /\ r \in DOMAIN runs
    /\ runs[r].pc = "lint"
    /\ runs' = [runs EXCEPT ![r].pc = "done", ![r].out = "error",
                            ![r].quiet = quietFrom, ![r].doneAt = now]
    /\ UNCHANGED <<now, cacheVars, procVars, quietFrom, docText, settings, saving, timers, timeoutId,
                   canRun, queued, resultCache, rulesCache, lastProcessedFile,
                   lastContentHash, display, burst>>

Ticks(t) == (t % LongIdle) \div TickMs

Idles(t) == t \div LongIdle

\* time passes until the next timer is due
Advance ==
    /\ timers # {}
    /\ NoTimerDue
    /\ \E tm \in timers :
         /\ \A other \in timers : tm.at <= other.at
         /\ now' = tm.at
    /\ UNCHANGED <<cacheVars, schedVars, procVars>>

\* a tick passes, or the time to the next timer if that is less
Tick ==
    /\ Ticks(now) < MaxTicks
    /\ NoTimerDue
    /\ \E d \in 1..TickMs :
         /\ \A tm \in timers : tm.at >= now + d
         /\ d = TickMs \/ \E tm \in timers : tm.at = now + d
         /\ now' = now + d
    /\ UNCHANGED <<cacheVars, schedVars, procVars>>

\* a long pause with no timer pending, longer than the caches' ttl
Idle ==
    /\ Idles(now) < MaxIdles
    /\ timers = {}
    /\ now' = now + LongIdle
    /\ UNCHANGED <<cacheVars, schedVars, procVars>>

Init ==
    /\ now = 0
    /\ cache = EmptyMap
    /\ lastOp = NoOp
    /\ SchedIdle
    /\ ProcIdle

Next ==
    \/ \E t \in Texts : VaultModify(t)
    \/ EditorChange
    \/ DebounceFire
    \/ HighPriority
    \/ ThrottleFire
    \/ RunButton
    \/ \E x \in Toggles : ToggleSetting(x)
    \/ SaveSettingsDone
    \/ ClearCache
    \/ \E r \in 1..MaxRuns : RunStart(r)
    \/ \E r \in 1..MaxRuns : RunRead(r)
    \/ \E r \in 1..MaxRuns : RunCheck(r)
    \/ \E r \in 1..MaxRuns : RunLintDone(r)
    \/ \E r \in 1..MaxRuns : RunLintThrow(r)
    \/ Advance
    \/ Idle

Spec == Init /\ [][Next]_vars

(***************************************************************************)
(* SpecTimers: the debouncer and the throttler alone, on a clock that      *)
(* ticks in tenths of a second; the requested runs stay queued.            *)
(***************************************************************************)
TimersNext ==
    \/ \E t \in Texts : VaultModify(t)
    \/ EditorChange
    \/ DebounceFire
    \/ HighPriority
    \/ ThrottleFire
    \/ Tick

SpecTimers == Init /\ [][TimersNext]_vars

(***************************************************************************)
(* SpecAdaptive: one processWithKuromojiOptimization call on a document    *)
(* of the sample sizes, with the strategy the plugin selects for it or     *)
(* with the first strategy.  The analyzer resolves, rejects or stays       *)
(* unsettled; a pending timer fires at its deadline.                       *)
(***************************************************************************)
MarkedSizes == {1, 999, 1000, 2500}

PlainSizes == {4999, 5000, 9999, 10000, 10001}

\* the waits of a call are followed when it has at most this many chunks
MaxChunks == 5

Followed == Len(proc.chunkData) <= MaxChunks

SampleLong == {1, 1001, 2001}

SampleJoshi == {1000, 1500}

Docs ==
    {Doc(n, long, joshi) :
        n \in MarkedSizes, long \in SUBSET SampleLong, joshi \in {{}, SampleJoshi}}
    \cup {Doc(n, {1}, {}) : n \in PlainSizes}

MaxFailures == 3

MaxEarly == 1

MaxWaits == 1

EarlyMs == 1

\* the text the pending analyzer call of p was given
CallText(p) ==
    IF p.pc = "chunk" THEN p.chunkData[p.i].content ELSE p.content

\* the analyzer is called on chunk `index` (0: the whole text) and the wait
\* for it begins at time t; delay is that of its timer, NoTimer without one
BeginWait(p, pcName, index, delay, t) ==
    [p EXCEPT !.pc = pcName, !.i = index,
              !.calls = Append(@, [chunk |-> index, startedAt |-> t, endedAt |-> t,
                                   delay |-> delay, outcome |-> "pending"])]

\* history: the wait for the last analyzer call ends at time t
EndWait(p, outcome, t) ==
    [p EXCEPT !.calls[Len(p.calls)].endedAt = t,
              !.calls[Len(p.calls)].outcome = outcome,
              !.failures = IF outcome = "ok" THEN @ ELSE @ + 1]

\* every chunk given the whole timeout
ChunkTimeoutWhole(p) == p.strategy.processingTimeout

\* strategy.processingTimeout / chunkData.length, as setTimeout takes it: in
\* whole milliseconds
ChunkTimeout(p) == p.strategy.processingTimeout \div Len(p.chunkData)

\* the chunk loop after the wait for chunk p.i: the next iteration, or the
\* merge and the return
AfterChunk(p, t) ==
    IF p.i < Len(p.chunkData)
    THEN [proc |-> BeginWait(p, "chunk", p.i + 1, ChunkTimeout(p), t),
          timer |-> t + ChunkTimeout(p)]
    ELSE [proc |-> [p EXCEPT !.pc = "done", !.out = "returned",
                             !.messages = mergeChunkResults(p.results).messages],
          timer |-> NoTimer]

\* lintCurrentFile: const strategy = AdaptiveProcessor.getOptimalStrategy(content)
ApSelect ==
    /\ proc.pc = "pick"
    /\ proc' = [proc EXCEPT !.pc = "new", !.selected = TRUE,
                            !.strategy = getOptimalStrategy(proc.content)]
    /\ UNCHANGED <<now, cacheVars, schedVars, chunkTimer, split, previousResults, dcalls, loads, events, lru>>

\* another caller hands in the first strategy of the table
ApGiven ==
    /\ proc.pc = "pick"
    /\ proc' = [proc EXCEPT !.pc = "new", !.strategy = STRATEGIES[1]]
    /\ UNCHANGED <<now, cacheVars, schedVars, chunkTimer, split, previousResults, dcalls, loads, events, lru>>

\* the call begins: up to the first await
ApStart ==
    /\ proc.pc = "new"
    /\ LET lineCount == LineCount(proc.content) IN
         IF lineCount < SmallFileLines
         THEN /\ proc' = BeginWait(proc, "whole", 0, NoTimer, now)
              /\ chunkTimer' = NoTimer
         ELSE IF proc.strategy.chunkSize # NoChunkSize
         THEN LET a == AfterChunk(
                            [proc EXCEPT
                                !.chunked = TRUE,
                                !.chunkData = ChunkData(createProcessingChunks(
                                    proc.content, proc.strategy.chunkSize))],
                            now)
              IN
                /\ proc' = a.proc
                /\ chunkTimer' = a.timer
         ELSE /\ proc' = BeginWait(proc, "whole", 0, proc.strategy.processingTimeout, now)
              /\ chunkTimer' = now + proc.strategy.processingTimeout
    /\ UNCHANGED <<now, cacheVars, schedVars, split, previousResults, dcalls, loads, events, lru>>

TimerPending == chunkTimer # NoTimer /\ now < chunkTimer

\* the analyzer resolves with its result before the timer (if any) is due
ApResolve ==
    /\ Followed
    /\ proc.pc \in {"whole", "chunk"}
    /\ chunkTimer = NoTimer \/ TimerPending
    /\ LET text == CallText(proc)
           result == kernelLint(text)
           p == EndWait(proc, "ok", now)
       IN IF proc.pc = "whole"
          THEN /\ proc' = [p EXCEPT !.pc = "done", !.out = "returned",
                                    !.messages = result.messages]
               /\ chunkTimer' = NoTimer
          ELSE LET a == AfterChunk(
                            [p EXCEPT !.results =
                                Append(@, [result |-> result,
                                           lines |-> p.chunkData[p.i].lines])],
                            now)
               IN /\ proc' = a.proc
                  /\ chunkTimer' = a.timer
    /\ UNCHANGED <<now, cacheVars, schedVars, split, previousResults, dcalls, loads, events, lru>>

\* an error on a chunk ends the call like an error on the whole text
FailedFatal(p, outcome, t) ==
    [proc |-> [EndWait(p, outcome, t) EXCEPT !.pc = "done", !.out = "error"],
     timer |-> NoTimer]

\* the wait ends with an error: on the whole text the call rejects, on a
\* chunk the catch block logs and the loop goes on
Failed(p, outcome, t) ==
    IF p.pc = "whole"
    THEN [proc |-> [EndWait(p, outcome, t) EXCEPT !.pc = "done", !.out = "error"],
          timer |-> NoTimer]
    ELSE AfterChunk(EndWait(p, outcome, t), t)

\* the analyzer rejects before the timer (if any) is due
ApReject ==
    /\ Followed
    /\ proc.pc \in {"whole", "chunk"}
    /\ chunkTimer = NoTimer \/ TimerPending
    /\ proc.failures < MaxFailures
    /\ LET f == Failed(proc, "error", now) IN
         /\ proc' = f.proc
         /\ chunkTimer' = f.timer
    /\ UNCHANGED <<now, cacheVars, schedVars, split, previousResults, dcalls, loads, events, lru>>

\* the timer of the pending wait fires
ApTimeout ==
    /\ proc.pc \in {"whole", "chunk"}
    /\ chunkTimer # NoTimer
    /\ now >= chunkTimer
    /\ LET f == Failed(proc, "timeout", now) IN
         /\ proc' = f.proc
         /\ chunkTimer' = f.timer
    /\ UNCHANGED <<now, cacheVars, schedVars, split, previousResults, dcalls, loads, events, lru>>

\* the analyzer stays unsettled until the timer is due
ApAdvance ==
    /\ Followed
    /\ TimerPending
    /\ proc.failures < MaxFailures
    /\ now' = chunkTimer
    /\ UNCHANGED <<cacheVars, schedVars, procVars>>

\* a moment passes while the analyzer works
ApEarly ==
    /\ Followed
    /\ chunkTimer # NoTimer
    /\ now + EarlyMs < chunkTimer
    /\ proc.early < MaxEarly
    /\ now' = now + EarlyMs
    /\ proc' = [proc EXCEPT !.early = @ + 1]
    /\ UNCHANGED <<cacheVars, schedVars, chunkTimer, split, previousResults, dcalls, loads, events, lru>>

\* the analyzer stays unsettled, with no timer pending, for longer than the
\* strategy's timeout
ApWait ==
    /\ proc.pc = "whole"
    /\ chunkTimer = NoTimer
    /\ proc.waits < MaxWaits
    /\ now' = now + proc.strategy.processingTimeout + 1
    /\ proc' = [proc EXCEPT !.waits = @ + 1]
    /\ UNCHANGED <<cacheVars, schedVars, chunkTimer, split, previousResults, dcalls, loads, events, lru>>

AdaptiveInit ==
    /\ now = 0
    /\ cache = EmptyMap
    /\ lastOp = NoOp
    /\ SchedIdle
    /\ \E content \in Docs : proc = NewProc(content, STRATEGIES[1])
    /\ chunkTimer = NoTimer
    /\ split = NoSplit
    /\ previousResults = NoSnapshots
    /\ dcalls = <<>>
    /\ loads = <<>>
    /\ events = <<>>
    /\ lru = NewLru

AdaptiveNext ==
    \/ ApSelect
    \/ ApGiven
    \/ ApStart
    \/ ApResolve
    \/ ApReject
    \/ ApTimeout
    \/ ApAdvance
    \/ ApEarly
    \/ ApWait

SpecAdaptive == AdaptiveInit /\ [][AdaptiveNext]_vars

(***************************************************************************)
(* SpecChunks: createProcessingChunks on every short text, with every      *)
(* small chunk size.                                                       *)
(***************************************************************************)
MaxLines == 5

MaxChunkSize == 4

Lines == {"fine", "wawa"}

ShortTexts == UNION {[1..n -> Lines] : n \in 1..MaxLines}

ChunksInit ==
    /\ now = 0
    /\ cache = EmptyMap
    /\ lastOp = NoOp
    /\ SchedIdle
    /\ proc = NoProc
    /\ chunkTimer = NoTimer
    /\ \E content \in ShortTexts, chunkSize \in 1..MaxChunkSize :
         split = [content |-> content, chunkSize |-> chunkSize,
                  done |-> FALSE, chunks |-> <<>>]
    /\ previousResults = NoSnapshots
    /\ dcalls = <<>>
    /\ loads = <<>>
    /\ events = <<>>
    /\ lru = NewLru

\* createProcessingChunks(content, chunkSize) is called
SplitCall ==
    /\ ~split.done
    /\ split' = [split EXCEPT !.done = TRUE,
                      !.chunks = createProcessingChunks(split.content, split.chunkSize)]
    /\ UNCHANGED <<now, cacheVars, schedVars, proc, chunkTimer, previousResults, dcalls, loads, events, lru>>

ChunksNext == SplitCall

SpecChunks == ChunksInit /\ [][ChunksNext]_vars

(***************************************************************************)
(* SpecDiff: processChangedRegionsOnly calls on one document, which may    *)
(* overlap in time, and clearCache.  dcalls is the log of both.            *)
(***************************************************************************)
DiffSizes == {12, 40}

\* the lines (1-based) that may hold the over-long sentence
DiffLong == {6, 7, 17}

\* the lines (1-based) that may hold the doubled particle
DiffJoshi == {1, 12, 40}

MarkedDocs ==
    {Doc(n, long, joshi) :
        n \in DiffSizes, long \in {{}, DiffLong}, joshi \in SUBSET DiffJoshi}

\* the short documents with a newline typed at their end: one more, empty line
EndingInNewline == {d \o <<"">> : d \in {m \in MarkedDocs : Len(m) < 40}}

DiffDocs == MarkedDocs \cup EndingInNewline

MaxCalls == 2

MaxClears == 1

\* the number of clearCache calls (mode TRUE) or of the other calls so far
Made(mode) == Cardinality({k \in DOMAIN dcalls : (dcalls[k].mode = "clear") = mode})

\* processChangedRegionsOnly is called: it runs to its await, or to its
\* return when nothing has changed
DiffCall(content) ==
    /\ Made(FALSE) < MaxCalls
    /\ dcalls' = Append(dcalls,
                        StartCall(previousResults, FilePath, content, dcalls))
    /\ UNCHANGED <<now, cacheVars, schedVars, proc, chunkTimer, split, previousResults, loads, events, lru>>

\* the analyzer call of call k resolves: the snapshot is stored and the
\* findings are returned
DiffResolve(k) ==
    /\ k \in DOMAIN dcalls
    /\ dcalls[k].pc = "await"
    /\ LET call == Resolved(dcalls[k], lintFunction(dcalls[k].sent)) IN
         /\ previousResults' = SnapshotSet(previousResults, call.path,
                                           call.content, call.messages)
         /\ dcalls' = [dcalls EXCEPT ![k] = call]
    /\ UNCHANGED <<now, cacheVars, schedVars, proc, chunkTimer, split, loads, events, lru>>

\* the analyzer call of call k rejects: the call rejects (threw is the
\* history of that)
DiffReject(k) ==
    /\ k \in DOMAIN dcalls
    /\ dcalls[k].pc = "await"
    /\ dcalls' = [dcalls EXCEPT ![k] = [Rejected(dcalls[k]) EXCEPT !.threw = TRUE]]
    /\ UNCHANGED <<now, cacheVars, schedVars, proc, chunkTimer, split, previousResults, loads, events, lru>>

\* DifferentialProcessor.clearCache(filePath)
DiffClearCache ==
    /\ Made(TRUE) < MaxClears
    /\ previousResults' = MapDelete(previousResults, FilePath)
    /\ dcalls' = Append(dcalls, ClearEntry(FilePath, dcalls))
    /\ UNCHANGED <<now, cacheVars, schedVars, proc, chunkTimer, split, loads, events, lru>>

DiffInit ==
    /\ now = 0
    /\ cache = EmptyMap
    /\ lastOp = NoOp
    /\ SchedIdle
    /\ ProcIdle

DiffNext ==
    \/ \E content \in DiffDocs : DiffCall(content)
    \/ \E k \in DOMAIN dcalls : DiffResolve(k)
    \/ \E k \in DOMAIN dcalls : DiffReject(k)
    \/ DiffClearCache

SpecDiff == DiffInit /\ [][DiffNext]_vars

(***************************************************************************)
(* SpecDocs: processChangedRegionsOnly calls on two documents, with three  *)
(* 12-line texts: one, the same with its first line edited (minority       *)
(* path), the same with its last line edited (majority path).              *)
(***************************************************************************)
OtherPath == "other.md"

DocPaths == {FilePath, OtherPath}

DocTexts == {Doc(12, DiffLong, {}), Doc(12, DiffLong, {1}), Doc(12, DiffLong, {12})}

MaxDocCalls == 3

\* processChangedRegionsOnly(path, content, lintFunction) is called
DocsCall(path, content) ==
    /\ Made(FALSE) < MaxDocCalls
    /\ dcalls' = Append(dcalls, StartCall(previousResults, path, content, dcalls))
    /\ UNCHANGED <<now, cacheVars, schedVars, proc, chunkTimer, split, previousResults, loads, events, lru>>

DocsNext ==
    \/ \E path \in DocPaths : \E content \in DocTexts : DocsCall(path, content)
    \/ \E k \in DOMAIN dcalls : DiffResolve(k)
    \/ \E k \in DOMAIN dcalls : DiffReject(k)

SpecDocs == DiffInit /\ [][DocsNext]_vars

(***************************************************************************)
(* SpecLru: set, get, has, remove, delete, evictLRU, cleanup and clear     *)
(* calls on one LRUCache, with the clock moving between them.  No call is  *)
(* made once a call has hung: the thread never returns from it.            *)
(***************************************************************************)
MaxSets == 3

MaxLruTicks == 1

MaxEvict == 2

lruFrame == <<cacheVars, schedVars, proc, chunkTimer, split, previousResults, dcalls, loads, events>>

LruSet(key, value) ==
    /\ ~lru.hung
    /\ Len(lru.nodes) < MaxSets
    /\ lru' = LruSetTo(lru, key, value, now)
    /\ UNCHANGED <<now, lruFrame>>

LruGet(key) ==
    /\ ~lru.hung
    /\ lru' = LruAfterGet(lru, key, now)
    /\ UNCHANGED <<now, lruFrame>>

LruHas(key) ==
    /\ ~lru.hung
    /\ lru' = LruAfterHas(lru, key, now)
    /\ UNCHANGED <<now, lruFrame>>

LruRemove(key) ==
    /\ ~lru.hung
    /\ lru' = LruRemoved(lru, key)
    /\ UNCHANGED <<now, lruFrame>>

\* delete(key): remove(key), and tells whether the key was held
LruDelete(key) ==
    /\ ~lru.hung
    /\ lru' = LruRemoved(lru, key)
    /\ UNCHANGED <<now, lruFrame>>

LruEvict(count) ==
    /\ ~lru.hung
    /\ lru' = evictLRU(lru, count)
    /\ UNCHANGED <<now, lruFrame>>

\* the interval timer of startCleanupTimer fires, or cleanup() is called
LruCleanup ==
    /\ ~lru.hung
    /\ lru' = LruCleaned(lru, now)
    /\ UNCHANGED <<now, lruFrame>>

LruClear ==
    /\ ~lru.hung
    /\ lru' = LruCleared(lru)
    /\ UNCHANGED <<now, lruFrame>>

\* the clock moves on by more than the time to live
LruAdvance ==
    /\ ~lru.hung
    /\ now < MaxLruTicks * (LruTtl + 1)
    /\ now' = now + LruTtl + 1
    /\ UNCHANGED <<lru, lruFrame>>

LruNext ==
    \/ \E key \in LruKeys : \E value \in LruValues : LruSet(key, value)
    \/ \E key \in LruKeys : LruGet(key)
    \/ \E key \in LruKeys : LruHas(key)
    \/ \E key \in LruKeys : LruRemove(key)
    \/ \E key \in LruKeys : LruDelete(key)
    \/ \E count \in 1 .. MaxEvict : LruEvict(count)
    \/ LruCleanup
    \/ LruClear
    \/ LruAdvance

SpecLru == Init /\ [][LruNext]_vars

(***************************************************************************)
(* SpecRoute: lint runs on a 40-line document whose first line is edited   *)
(* between them: the run button, the debounced edit trigger and the runs'  *)
(* steps.                                                                  *)
(***************************************************************************)
RouteInit ==
    /\ now = 0
    /\ cache = EmptyMap
    /\ lastOp = NoOp
    /\ docText = Doc(40, {6, 7, 17}, {})
    /\ settings = DEFAULT_SETTINGS
    /\ saving = 0
    /\ timers = {}
    /\ timeoutId = NoTimer
    /\ canRun = TRUE
    /\ queued = FALSE
    /\ runs = <<>>
    /\ resultCache = EmptyMap
    /\ rulesCache = EmptyMap
    /\ lastProcessedFile = NoFile
    /\ lastContentHash = NoHash
    /\ display = [set |-> FALSE, msgs |-> <<>>]
    /\ burst = NoBurst
    /\ quietFrom = 1
    /\ ProcIdle

RouteNext ==
    \/ \E t \in RouteTexts : VaultModify(t)
    \/ DebounceFire
    \/ RunButton
    \/ \E r \in 1..MaxRuns : RunStart(r)
    \/ \E r \in 1..MaxRuns : RunRead(r)
    \/ \E r \in 1..MaxRuns : RunCheck(r)
    \/ \E r \in 1..MaxRuns : RunLintDone(r)
    \/ Advance

SpecRoute == RouteInit /\ [][RouteNext]_vars

(***************************************************************************)
(* SpecRules: loadRules calls of the one RuleLoader, split at their await  *)
(* of Promise.allSettled, clearCache and a clock.  loads is the log of the *)
(* calls.  The task promises of a call settle in any order before the call *)
(* resumes.                                                                *)
(***************************************************************************)
\* every preset and two individual rules on; everything off
RuleSettings ==
    { {"useTechnicalWritingPreset", "useSpacingPreset", "useCustomRules",
       "useJtfStylePreset", "useNoDoubledJoshi", "useNoDroppingI"},
      {} }

\* the orders in which n task promises settle: as pushed, last first, and
\* the first one last
SettleOrders(n) ==
    { [i \in 1..n |-> i],
      [i \in 1..n |-> n + 1 - i],
      [i \in 1..n |-> IF i = n THEN 1 ELSE i + 1] }

\* the loadRules calls that rebuild the list, and those the memo answers
MaxLoads == 2

MaxHits == 1

MaxRuleClears == 1

\* the moments the clock shows: the millisecond it starts at, the one a
\* whole ttl later and the next
Moments == {0, RulesTtl, RulesTtl + 1}

\* the throws one loadRules call with settings s can meet
Faults(s) ==
    {NoFault}
    \cup {[source |-> Presets[i].prefix, at |-> j] :
            <<i, j>> \in {x \in (DOMAIN Presets) \X (1..2) :
                            /\ Presets[x[1]].setting \in s
                            /\ x[2] <= Len(Presets[x[1]].entries)}}
    \cup {[source |-> "additional", at |-> i] :
            i \in {x \in DOMAIN IndividualRules : IndividualRules[x][1] \in s}}

\* the loadRules calls that are at their await
AwaitingLoads(log) == {k \in DOMAIN log : log[k].pc = "await"}

\* loadRules from its entry to its return on a memo hit, or to its await.
\* History fields: held/stored (the memo's entry for the key before the
\* call), outOfOrder (a task settled before an earlier one), overlaps
\* (another call was at its await)
StartLoad(memo, s, fault, t, log) ==
    LET key == generateSettingsKey(s)
        look == MemoLookup(memo, key, t)
    IN [op |-> "load",
        pc |-> IF look.found THEN "done" ELSE "await",
        settings |-> s,
        key |-> key,
        held |-> (key \in DOMAIN memo /\ t - memo[key].timestamp <= RulesTtl),
        stored |-> IF key \in DOMAIN memo THEN memo[key].data ELSE <<>>,
        hit |-> look.found,
        fault |-> fault,
        tasks |-> IF look.found THEN <<>> ELSE presetTasks(s, fault),
        outOfOrder |-> FALSE,
        rules |-> look.value,
        overlaps |-> (AwaitingLoads(log) # {})]

\* the log entry of a clearCache call
ClearedEntry(log) ==
    [op |-> "clear", pc |-> "done", settings |-> {}, key |-> <<>>,
     held |-> FALSE, stored |-> <<>>, hit |-> FALSE, fault |-> NoFault,
     tasks |-> <<>>, outOfOrder |-> FALSE, rules |-> <<>>,
     overlaps |-> (AwaitingLoads(log) # {})]

\* the number of clearCache calls so far (op "clear"), or of the loadRules
\* calls that the memo answered (hit) or that rebuilt the list
Loaded(op, hit) ==
    Cardinality({k \in DOMAIN loads : loads[k].op = op /\ loads[k].hit = hit})

rulesFrame ==
    <<cacheVars, docText, settings, saving, timers, timeoutId, canRun, queued,
      runs, resultCache, lastProcessedFile, lastContentHash, display, burst,
      quietFrom, proc, chunkTimer, split, previousResults, dcalls, events, lru>>

\* loadRules(s) is called
RlLoad(s, fault) ==
    /\ LET key == generateSettingsKey(s)
           look == MemoLookup(rulesCache, key, now)
       IN /\ IF look.found
             THEN Loaded("load", TRUE) < MaxHits /\ fault = NoFault
             ELSE Loaded("load", FALSE) < MaxLoads
          /\ rulesCache' = look.map
          /\ loads' = Append(loads, StartLoad(rulesCache, s, fault, now, loads))
    /\ UNCHANGED <<now, rulesFrame>>

\* the task promises of call k have settled, in the order `order`: the
\* results are merged, validated and stored, and the call returns
RlMerge(k, order) ==
    /\ loads[k].pc = "await"
    /\ LET validRules == validateRules(CollectResults(loads[k].tasks, order))
       IN /\ rulesCache' = CacheSet(rulesCache, loads[k].key, validRules,
                                    NoHash, now)
          /\ loads' = [loads EXCEPT
                 ![k].pc = "done",
                 ![k].rules = validRules,
                 ![k].outOfOrder = \E i \in DOMAIN order : order[i] # i]
    /\ UNCHANGED <<now, rulesFrame>>

\* RuleLoader.clearCache()
RlClearCache ==
    /\ Loaded("clear", FALSE) < MaxRuleClears
    /\ rulesCache' = EmptyMap
    /\ loads' = Append(loads, ClearedEntry(loads))
    /\ UNCHANGED <<now, rulesFrame>>

\* time passes up to a later moment
RlAdvance(t) ==
    /\ t > now
    /\ now' = t
    /\ UNCHANGED <<rulesCache, loads, rulesFrame>>

RulesInit ==
    /\ now = 0
    /\ cache = EmptyMap
    /\ lastOp = NoOp
    /\ SchedIdle
    /\ ProcIdle

RulesNext ==
    \/ \E s \in RuleSettings : \E fault \in Faults(s) : RlLoad(s, fault)
    \/ \E k \in DOMAIN loads :
         \E order \in SettleOrders(Len(loads[k].tasks)) : RlMerge(k, order)
    \/ RlClearCache
    \/ \E t \in Moments : RlAdvance(t)

SpecRules == RulesInit /\ [][RulesNext]_vars

(***************************************************************************)
(* SpecEvents: the lint requests of the plugin and onunload, on the clock   *)
(* of SpecTimers.  events is the log of the requests: the run button, the   *)
(* throttled linter ('file-open', the save keystroke), the callbacks of the *)
(* throttler's and the debouncer's timers.  The requested runs stay queued. *)
(* After onunload the registered handlers and the view are gone; timers     *)
(* that were set still fire.                                               *)
(***************************************************************************)
Unloaded == \E i \in DOMAIN events : events[i].kind = "unload"

\* the log entry of a request made now; run is the run it asked for, or 0
\* when the throttler only noted the request
Event(kind, run) == [kind |-> kind, at |-> now, run |-> run]

eventsFrame ==
    <<cacheVars, docText, settings, saving, rulesCache, lastProcessedFile,
      lastContentHash, display, quietFrom, proc, chunkTimer, split,
      previousResults, dcalls, loads, lru>>

\* the run button of the result view: lintCurrentFileImmediately()
EvRunButton ==
    /\ ~Unloaded
    /\ NoTimerDue
    /\ Pending < MaxRuns
    /\ runs' = lintCurrentFileImmediately(runs, "button", BothEmpty(resultCache, rulesCache))
    /\ events' = Append(events, Event("button", Len(runs) + 1))
    /\ UNCHANGED <<now, timers, timeoutId, canRun, queued, resultCache, burst, eventsFrame>>

\* this.throttledLinter?.(): 'file-open' and the save keystroke.  A call
\* while a request is noted changes nothing
EvHighPriority ==
    /\ ~Unloaded
    /\ NoTimerDue
    /\ Pending < MaxRuns
    /\ IF ~canRun
       THEN /\ ~queued
            /\ queued' = TRUE
            /\ events' = Append(events, Event("priority", 0))
            /\ UNCHANGED <<canRun, runs, timers>>
       ELSE /\ canRun' = FALSE
            /\ runs' = lintCurrentFileImmediately(runs, "throttle", BothEmpty(resultCache, rulesCache))
            /\ timers' = timers \cup {[kind |-> "throttle", at |-> now + ThrottleInterval]}
            /\ events' = Append(events, Event("priority", Len(runs) + 1))
            /\ UNCHANGED queued
    /\ UNCHANGED <<now, timeoutId, resultCache, burst, eventsFrame>>

\* the throttler's timer expires
EvThrottleFire ==
    \E tm \in timers :
        /\ tm.kind = "throttle"
        /\ tm.at <= now
        /\ timers' = timers \ {tm}
        /\ canRun' = TRUE
        /\ IF queued
           THEN /\ queued' = FALSE
                /\ runs' = lintCurrentFileImmediately(runs, "throttle", BothEmpty(resultCache, rulesCache))
                /\ events' = Append(events, Event("throttled", Len(runs) + 1))
           ELSE UNCHANGED <<queued, runs, events>>
        /\ UNCHANGED <<now, timeoutId, resultCache, burst, eventsFrame>>

\* 'editor-change', 'editor-paste', 'active-leaf-change': the debouncer
EvEditorChange ==
    /\ ~Unloaded
    /\ Debounced
    /\ UNCHANGED <<now, canRun, queued, runs, resultCache, events, eventsFrame>>

\* the debouncer's timer expires: callback.apply(null, lastArgs)
EvDebounceFire ==
    \E tm \in DebounceTimers :
        /\ tm.at <= now
        /\ Len(runs) < MaxRuns
        /\ timers' = timers \ {tm}
        /\ runs' = lintCurrentFileImmediately(runs, "debounce", BothEmpty(resultCache, rulesCache))
        /\ burst' = [burst EXCEPT !.fired = @ + 1, !.firedAt = now]
        /\ events' = Append(events, Event("debounce", Len(runs) + 1))
        /\ UNCHANGED <<now, timeoutId, canRun, queued, resultCache, eventsFrame>>

\* onunload: cleanup() resets the memory manager's counters and clears the
\* content cache and the result cache
EvUnload ==
    /\ ~Unloaded
    /\ NoTimerDue
    /\ resultCache' = EmptyMap
    /\ events' = Append(events, Event("unload", 0))
    /\ UNCHANGED <<now, timers, timeoutId, canRun, queued, runs, burst, eventsFrame>>

EventsNext ==
    \/ EvRunButton
    \/ EvHighPriority
    \/ EvThrottleFire
    \/ EvEditorChange
    \/ EvDebounceFire
    \/ EvUnload
    \/ Tick

SpecEvents == Init /\ [][EventsNext]_vars

(***************************************************************************)
(* The claims about the scheduler                                          *)
(***************************************************************************)
Runs == DOMAIN runs

InFlight == {r \in Runs : runs[r].pc = "lint"}

Finished(r) == runs[r].pc = "done"

\* r was requested after q had finished, and nothing was edited, saved or
\* cleared from q's request to r's end
FollowsQuietly(q, r) ==
    /\ r = q + 1
    /\ Finished(q) /\ Finished(r)
    /\ q \notin runs[r].alive
    /\ runs[r].quiet <= q

\* what analysing the text a run read, under the settings it saw, gives
FreshResult(r) == ToMessages(lintText(runs[r].content, LoadRuleSources(runs[r].snap)))

\* C1: at most one analysis of the document is in flight at any time: no run
\* reaches the analyzer call while another run's analyzer call is unresolved.
ClaimC1_SingleFlight == Cardinality(InFlight) <= 1

\* C2: stale-result guard: the findings of a run whose document changed
\* between its read and the completion of its analysis are not applied to
\* the display.
ClaimC2_StaleGuard ==
    \A r \in Runs : runs[r].analyzed /\ runs[r].out = "shown" => ~runs[r].stale

\* C3: triggers that arrive while an analysis is in flight lead to exactly
\* one follow-up run, which starts only after the in-flight run completed.
ClaimC3_OneFollowUp ==
    /\ \A r \in Runs : ~runs[r].early
    /\ \A q \in Runs :
         Cardinality({r \in Runs : q \in runs[r].inflight /\ runs[r].pc # "idle"}) <= 1

\* C4: a burst of debounced triggers, each less than the debounce delay
\* after the previous one, fires the callback exactly once, one delay after
\* the last trigger of the burst and never before it.
TheoremC4_DebounceOnce ==
    burst.n >= 1 =>
        /\ burst.fired <= 1
        /\ now < burst.last + DebounceDelay => burst.fired = 0
        /\ now > burst.last + DebounceDelay => burst.fired = 1
        /\ burst.fired = 1 => burst.firedAt = burst.last + DebounceDelay

\* a burst of three triggers, the last later than the first, has fired once
WitnessC4_BurstFired ==
    /\ burst.n >= 3
    /\ burst.last > 0
    /\ burst.fired = 1
    /\ runs # <<>>

\* the second of two consecutive runs repeats the first from the cache
Repeats(q, r) ==
    /\ runs[r].out = "shown"
    /\ runs[r].msgs = runs[q].msgs
    /\ ~runs[r].analyzed
    /\ runs[r].lookup = "hit"

\* q analysed and showed its text, and r is the next run, with no other run
\* unfinished when either was requested
Consecutive(q, r) ==
    /\ FollowsQuietly(q, r)
    /\ runs[q].alive = {} /\ runs[r].alive = {}
    /\ runs[q].out = "shown" /\ runs[q].analyzed

ClaimC6_MissAnalyzes ==
    \A r \in Runs :
        /\ runs[r].lookup = "miss" => runs[r].analyzed
        /\ runs[r].out = "shown" => runs[r].msgs = FreshResult(r)

\* C7: when the analyzer throws, a notice is shown, nothing is cached for
\* that text, and the next trigger for the unchanged document invokes the
\* analyzer again.
ClaimC7_RetryAfterError ==
    /\ \A q \in Runs :
         runs[q].out = "error" /\ (\A r \in Runs \ {q} : ~runs[r].analyzed) =>
             CacheKey(FilePath, runs[q].hash) \notin DOMAIN resultCache
    /\ \A q, r \in Runs :
         FollowsQuietly(q, r) /\ runs[q].out = "error" => runs[r].analyzed

OldAge == lastOp.at - lastOp.old.timestamp

\* C9: once more than ttl has passed since an entry was set, get returns
\* absent and isValidByHash returns false, even on a digest match, and the
\* call removes the entry; an entry whose age is exactly ttl is still valid.
ClaimC9_ExpiryEvicts ==
    lastOp.op \in {"get", "isValidByHash"} /\ lastOp.had =>
        /\ OldAge > DefaultTtl =>
             /\ ~lastOp.ret
             /\ lastOp.key \notin DOMAIN cache
        /\ OldAge = DefaultTtl /\ lastOp.op = "get" =>
             /\ lastOp.ret
             /\ lastOp.value = lastOp.old.data
             /\ lastOp.key \in DOMAIN cache
        /\ OldAge = DefaultTtl /\ lastOp.op = "isValidByHash"
              /\ lastOp.old.hash # NoHash /\ lastOp.old.hash = lastOp.hash =>
             /\ lastOp.ret
             /\ lastOp.key \in DOMAIN cache

\* C10: isValidByHash returns true only for an existing entry whose digest
\* equals the query and whose age is at most ttl; in every other case where
\* an entry exists (digest mismatch or expiry) the entry is evicted.
ClaimC10_InvalidEvicts ==
    lastOp.op = "isValidByHash" =>
        /\ lastOp.ret =>
             /\ lastOp.had
             /\ lastOp.old.hash = lastOp.hash
             /\ OldAge <= DefaultTtl
        /\ lastOp.had /\ ~lastOp.ret => lastOp.key \notin DOMAIN cache

(***************************************************************************)
(* The claims about AdaptiveProcessor                                      *)
(***************************************************************************)
\* the strategy has been chosen by getOptimalStrategy
Selected == proc.pc # "pick" /\ proc.selected

\* the number of lines of the document of the call
DocLines == Len(proc.content)

\* the strategy table as the documentation gives it
TableSays(n, timeout, chunkSize) ==
    /\ proc.strategy.processingTimeout = timeout
    /\ proc.strategy.chunkSize = chunkSize

Calls == proc.calls

\* C12: a document of fewer than 1000 lines is analysed by one analyzer call
\* on the whole text, and that call is bounded by the strategy's timeout: it
\* is never still awaited more than processingTimeout after it began.
ClaimC12_SmallBounded ==
    DocLines < 1000 /\ Calls # <<>> =>
        /\ Len(Calls) = 1
        /\ Calls[1].chunk = 0
        /\ Calls[1].outcome = "pending" =>
             now - Calls[1].startedAt <= proc.strategy.processingTimeout

\* the chunked call has returned
ChunkedDone == proc.chunked /\ proc.pc = "done"

\* the chunks whose analysis succeeded
OkChunks == {Calls[k].chunk : k \in {j \in 1..Len(Calls) : Calls[j].outcome = "ok"}}

\* the total number of lines of the chunks that precede chunk c
RECURSIVE LinesBefore(_, _)
LinesBefore(chunkData, c) ==
    IF c <= 1 THEN 0 ELSE chunkData[c - 1].lines + LinesBefore(chunkData, c - 1)

\* finding f of chunk c, moved to its place in the document
Rebased(f, c) ==
    [f EXCEPT !.line = @ + LinesBefore(proc.chunkData, c),
              !.endLine = IF @ # NoLine THEN @ + LinesBefore(proc.chunkData, c) ELSE NoLine]

\* the findings of the analysed chunks, each at its place in the document
RebasedFindings ==
    UNION {{Rebased(kernelLint(proc.chunkData[c].content).messages[k], c) :
               k \in 1..Len(kernelLint(proc.chunkData[c].content).messages)} :
           c \in OkChunks}

\* C13: in the merged result of a chunked run every finding reported at
\* line l of a chunk has line l plus the number of lines of all chunks that
\* precede that chunk in the document, its endLine shifted alike, and the
\* merged findings are sorted by line.
ClaimC13_MergedLines ==
    ChunkedDone =>
        /\ {proc.messages[m] : m \in 1..Len(proc.messages)} = RebasedFindings
        /\ \A a, b \in 1..Len(proc.messages) :
             a < b => proc.messages[a].line <= proc.messages[b].line

\* how many findings of a rule a list holds
CountOf(messages, rule) ==
    Cardinality({m \in 1..Len(messages) : messages[m].ruleId = rule})

RECURSIVE CountInOkChunks(_, _)
CountInOkChunks(rule, c) ==
    IF c = 0 THEN 0
    ELSE (IF c \in OkChunks
          THEN CountOf(kernelLint(proc.chunkData[c].content).messages, rule)
          ELSE 0)
         + CountInOkChunks(rule, c - 1)

\* C14: an analyzer error or timeout on a chunk does not fail the chunked
\* run: the chunk contributes no findings, every chunk is still analysed in
\* turn, and the run returns the findings of the chunks that succeeded.
TheoremC14_ChunkFailureSkipped ==
    ChunkedDone =>
        /\ proc.out = "returned"
        /\ Len(Calls) = Len(proc.chunkData)
        /\ \A k \in 1..Len(Calls) : Calls[k].chunk = k
        /\ Len(proc.results) = Cardinality(OkChunks)
        /\ \A j \in 1..Len(AllRules) :
             CountOf(proc.messages, AllRules[j])
                 = CountInOkChunks(AllRules[j], Len(proc.chunkData))

\* the first chunk, which holds a finding, failed, and the run has returned
\* the finding of a later chunk
WitnessC14_LaterChunkReturned ==
    /\ ChunkedDone
    /\ Len(Calls) = 3
    /\ Calls[1].outcome \in {"error", "timeout"}
    /\ kernelLint(proc.chunkData[1].content).messages # <<>>
    /\ 2 \in OkChunks
    /\ proc.messages # <<>>

\* C15: the chunks are analysed one at a time in document order, the call
\* for a chunk starts only when the wait for the chunk before it has ended,
\* every wait lasts at most processingTimeout / chunkCount, and the whole
\* run ends within processingTimeout even if the analyzer never settles.
TheoremC15_SequentialBounded ==
    proc.chunked =>
        /\ \A k \in 1..Len(Calls) :
             /\ Calls[k].chunk = k
             /\ k < Len(Calls) =>
                  /\ Calls[k].outcome # "pending"
                  /\ Calls[k].endedAt <= Calls[k + 1].startedAt
             /\ LET end == IF Calls[k].outcome = "pending" THEN now ELSE Calls[k].endedAt
                IN (end - Calls[k].startedAt) * Len(proc.chunkData)
                       <= proc.strategy.processingTimeout
        /\ now - Calls[1].startedAt <= proc.strategy.processingTimeout

\* the analyzer settled on none of three chunks and the run has returned
WitnessC15_AllTimedOut ==
    /\ ChunkedDone
    /\ Len(Calls) = 3
    /\ \A k \in 1..3 : Calls[k].outcome = "timeout"
    /\ now - Calls[1].startedAt = proc.strategy.processingTimeout

\* C17: with the strategy getOptimalStrategy selects for the text, the
\* analysis is split into chunks if and only if the document has at least
\* 1000 lines.
TheoremC17_ChunkedIffLarge ==
    Selected /\ proc.pc # "new" => (proc.chunked <=> DocLines >= 1000)

\* a document of exactly 1000 lines is being analysed in chunks
WitnessC17_ThousandLinesChunked ==
    /\ Selected
    /\ DocLines = 1000
    /\ proc.chunked
    /\ Calls # <<>>

(***************************************************************************)
(* The claims about createProcessingChunks                                 *)
(***************************************************************************)
RECURSIVE Joined(_, _)
Joined(chunks, c) ==
    IF c > Len(chunks) THEN <<>> ELSE chunks[c] \o Joined(chunks, c + 1)

\* C16: createProcessingChunks(text, n) returns ceil(L / n) chunks for a
\* text of L lines: every chunk but the last has n lines, the last has
\* between 1 and n, they are contiguous and in document order, and joined
\* they are the text.
TheoremC16_ChunksPartition ==
    split.done =>
        LET L == Len(split.content)
            n == split.chunkSize
            chunks == split.chunks
        IN /\ Len(chunks) * n >= L
           /\ (Len(chunks) - 1) * n < L
           /\ \A c \in 1..Len(chunks) :
                /\ c < Len(chunks) => Len(chunks[c]) = n
                /\ Len(chunks[c]) >= 1 /\ Len(chunks[c]) <= n
                /\ \A j \in 1..Len(chunks[c]) : chunks[c][j] = split.content[(c - 1) * n + j]
           /\ Joined(chunks, 1) = split.content

\* five lines have been split into two chunks of two lines and one of one
WitnessC16_ShortLastChunk ==
    /\ split.done
    /\ Len(split.content) = 5
    /\ split.chunkSize = 2
    /\ Len(split.chunks) = 3
    /\ Len(split.chunks[3]) = 1

(***************************************************************************)
(* The claims about DifferentialProcessor                                  *)
(***************************************************************************)
\* entry k of the log is a processChangedRegionsOnly call
IsCall(k) == dcalls[k].mode # "clear"

\* every call up to entry k began when no earlier call was awaiting the
\* analyzer
OneByOne(k) == \A j \in 1..k : dcalls[j].overlaps = {}

\* entry k is the first call for the document, or the first after a
\* clearCache for it
FirstSinceClear(k) ==
    /\ IsCall(k)
    /\ \A j \in 1..(k - 1) : IsCall(j) => \E c \in (j + 1)..(k - 1) : ~IsCall(c)

\* entry k has returned findings
HasReturned(k) == dcalls[k].pc = "done" /\ dcalls[k].out = "returned"

OnChangedLine(line, changedRegions) ==
    \E r \in 1..Len(changedRegions) :
        line - 1 >= changedRegions[r].start /\ line - 1 <= changedRegions[r].end

\* entry k took the minority-change path and has returned
RegionDone(k) == dcalls[k].mode = "region" /\ HasReturned(k)

Range(s) == {s[p] : p \in 1..Len(s)}

\* C19: in the minority-change path a finding of the previous result is
\* kept, unchanged, in the merged result if and only if its line lies
\* outside every changed region; the merged result is the kept findings
\* together with the fresh findings of the regions.
ClaimC19_KeptIffOutside ==
    \A k \in DOMAIN dcalls :
        RegionDone(k) =>
            /\ \A m \in 1..Len(dcalls[k].cached.messages) :
                 LET finding == dcalls[k].cached.messages[m] IN
                 (finding \in Range(dcalls[k].kept))
                    <=> ~OnChangedLine(finding.line, dcalls[k].regions)
            /\ Range(dcalls[k].messages)
                 = Range(dcalls[k].kept) \cup Range(dcalls[k].fresh)

\* the document lines (1-based) the extracted text is taken from, region k on
RECURSIVE OriginFrom(_, _, _)
OriginFrom(content, regions, k) ==
    IF k > Len(regions) THEN <<>>
    ELSE LET first == regions[k].start + 1
             last == IF regions[k].end + 1 < Len(content) THEN regions[k].end + 1
                     ELSE Len(content)
         IN [p \in 1..(last - first + 1) |-> first + p - 1]
            \o OriginFrom(content, regions, k + 1)

\* C20: in the minority-change path every finding the analyzer reports at
\* line m of the extracted text is returned with the number of the document
\* line that extracted line m was taken from, for any number of regions.
ClaimC20_FreshLinesRebased ==
    \A k \in DOMAIN dcalls :
        RegionDone(k) =>
            LET reported == lintFunction(dcalls[k].sent)
                origin == OriginFrom(dcalls[k].content, dcalls[k].regions, 1)
            IN /\ Len(dcalls[k].fresh) = Len(reported)
               /\ \A m \in 1..Len(reported) :
                    dcalls[k].fresh[m].line = origin[reported[m].line]

\* the 0-based indices at which the text of call k and the text of the
\* snapshot it read differ, a line beyond the end of the shorter text
\* counting as an empty line
Differing(k) ==
    {i \in 0..(Larger(Len(dcalls[k].content), Len(dcalls[k].cached.content)) - 1) :
        LineAt(dcalls[k].content, i) # LineAt(dcalls[k].cached.content, i)}

\* call k found a snapshot of the same length that differs in exactly one line
OneLineChanged(k) ==
    /\ IsCall(k)
    /\ dcalls[k].had
    /\ Len(dcalls[k].content) = Len(dcalls[k].cached.content)
    /\ Cardinality(Differing(k)) = 1

Smaller(a, b) == IF a < b THEN a ELSE b

Covered(k) ==
    Cardinality({i \in 0..(Len(dcalls[k].content) - 1) :
                    \E r \in 1..Len(dcalls[k].regions) :
                        i >= dcalls[k].regions[r].start /\ i <= dcalls[k].regions[r].end})

\* call k found a snapshot and changed regions
Changed(k) == IsCall(k) /\ dcalls[k].had /\ Len(dcalls[k].regions) > 0

\* C22: whenever a snapshot exists and the changed regions cover more than
\* half of the lines of the new text, the analyzer is given the complete new
\* text, and when the call has returned the snapshot holds the new text and
\* the analyzer's findings for it.
TheoremC22_MajorityFull ==
    \A k \in DOMAIN dcalls :
        (Changed(k) /\ 2 * Covered(k) > Len(dcalls[k].content)) =>
            /\ dcalls[k].mode = "full"
            /\ dcalls[k].sent = dcalls[k].content
            /\ (HasReturned(k) /\ k = Len(dcalls) /\ OneByOne(k)) =>
                 /\ dcalls[k].messages = lintFunction(dcalls[k].content)
                 /\ dcalls[k].path \in DOMAIN previousResults
                 /\ previousResults[dcalls[k].path] =
                       [content |-> dcalls[k].content,
                        messages |-> lintFunction(dcalls[k].content)]

\* a call whose regions cover every line has returned findings that differ
\* from those of the snapshot it read
WitnessC22_AllLinesCovered ==
    \E k \in DOMAIN dcalls :
        /\ Changed(k)
        /\ Covered(k) = Len(dcalls[k].content)
        /\ HasReturned(k)
        /\ k = Len(dcalls)
        /\ OneByOne(k)
        /\ dcalls[k].messages # dcalls[k].cached.messages
        /\ Len(dcalls[k].messages) > 0

\* C23: region-only processing is applied only when the changed regions
\* cover less than half of the document's lines; when they cover half of them
\* or more, exactly half included, the whole document is given to the
\* analyzer.
ClaimC23_HalfIsFull ==
    \A k \in DOMAIN dcalls :
        (Changed(k) /\ 2 * Covered(k) >= Len(dcalls[k].content)) =>
            /\ dcalls[k].mode = "full"
            /\ dcalls[k].sent = dcalls[k].content

\* C24: the region list returned by findChangedRegions is sorted by start
\* line and consists of maximal disjoint runs: each region starts more than
\* one line after the end of the region before it.
ClaimC24_RegionsMaximalRuns ==
    \A k \in DOMAIN dcalls :
        Changed(k) =>
            \A r \in 1..(Len(dcalls[k].regions) - 1) :
                dcalls[k].regions[r + 1].start > dcalls[k].regions[r].end + 1

\* the lines of the longer of the two texts findChangedRegions compared
LongerLines(k) == Larger(Len(dcalls[k].content), Len(dcalls[k].cached.content))

\* C25: every region returned by findChangedRegions lies within the document,
\* 0 <= start <= end <= (lines of the longer text) - 1, and every differing
\* line index i lies in a region together with the lines i-5 to i+5 that
\* exist.
ClaimC25_RegionsClamped ==
    \A k \in DOMAIN dcalls :
        Changed(k) =>
            /\ \A r \in 1..Len(dcalls[k].regions) :
                 /\ 0 <= dcalls[k].regions[r].start
                 /\ dcalls[k].regions[r].start <= dcalls[k].regions[r].end
                 /\ dcalls[k].regions[r].end <= LongerLines(k) - 1
            /\ \A i \in Differing(k) :
                 \E r \in 1..Len(dcalls[k].regions) :
                    /\ dcalls[k].regions[r].start <= Larger(0, i - 5)
                    /\ dcalls[k].regions[r].end >= Smaller(LongerLines(k) - 1, i + 5)

\* call k returns successfully in this step
Returns(k) ==
    /\ k \in DOMAIN dcalls'
    /\ dcalls'[k].mode # "clear"
    /\ dcalls'[k].pc = "done"
    /\ dcalls'[k].out = "returned"
    /\ k \in DOMAIN dcalls => dcalls[k].pc = "await"

\* the snapshot stored for the path of call k when the step is over is the
\* text of the call with the findings it returned
SnapshotIsCall(k) ==
    /\ dcalls'[k].path \in DOMAIN previousResults'
    /\ previousResults'[dcalls'[k].path] =
          [content |-> dcalls'[k].content, messages |-> dcalls'[k].messages]

\* C26: when a processChangedRegionsOnly(path, text, analyze) call returns
\* successfully, on any path through it, the snapshot stored for path has
\* content equal to text and findings equal to the returned list.
ClaimC26_SnapshotIsLastCall ==
    [][\A k \in 1..(Len(dcalls) + 1) : Returns(k) => SnapshotIsCall(k)]_vars

\* C35: findChangedRegions(old, new) returns no region exactly when old and
\* new are the same text; a text that differs from the stored one only in
\* the number of empty lines at its end gives a region too.
ClaimC35_NoRegionIffSame ==
    \A k \in DOMAIN dcalls :
        (IsCall(k) /\ dcalls[k].had) =>
            (dcalls[k].regions = <<>> <=> dcalls[k].cached.content = dcalls[k].content)

\* how often the list holds a finding of this rule at this line
Occurrences(messages, line, ruleId) ==
    Cardinality({p \in DOMAIN messages :
                    messages[p].line = line /\ messages[p].ruleId = ruleId})

\* the two lists hold the same findings, each as often in one as in the other
SameFindings(a, b) ==
    \A f \in {<<m.line, m.ruleId>> : m \in Range(a) \cup Range(b)} :
        Occurrences(a, f[1], f[2]) = Occurrences(b, f[1], f[2])

\* call k took the minority-change path on a text with as many lines as the
\* stored one, whose stored findings are those of analysing the stored text
SameLengthEdit(k) ==
    /\ RegionDone(k)
    /\ Len(dcalls[k].cached.content) = Len(dcalls[k].content)
    /\ dcalls[k].cached.messages = lintFunction(dcalls[k].cached.content)

\* C36: with an analyzer that judges each line by itself and an edit that
\* keeps the number of lines, the minority-change path returns the findings
\* of analysing the whole new text, each once and at its line.
ClaimC36_RegionPathIsWholeAnalysis ==
    \A k \in DOMAIN dcalls :
        SameLengthEdit(k) =>
            SameFindings(dcalls[k].messages, lintFunction(dcalls[k].content))

\* call k started while call j was awaiting the analyzer, both have
\* returned, and clearCache has not been called since call j started
OverlappedAndDone(j, k) ==
    /\ j < k
    /\ IsCall(j) /\ IsCall(k)
    /\ j \in dcalls[k].overlaps
    /\ HasReturned(j) /\ HasReturned(k)
    /\ \A c \in j..Len(dcalls) : IsCall(c)

\* C37: when two calls for the document overlap and both have returned, the
\* snapshot holds the text and the findings of the call that started last.
ClaimC37_LastStartedWins ==
    \A j, k \in DOMAIN dcalls :
        (OverlappedAndDone(j, k) /\ k = Len(dcalls)) =>
            /\ FilePath \in DOMAIN previousResults
            /\ previousResults[FilePath] =
                  [content |-> dcalls[k].content, messages |-> dcalls[k].messages]

(***************************************************************************)
(* The claims about the route of a lint run                                *)
(***************************************************************************)
\* the lines of a text of n lines that lie in one of the regions
LinesIn(regions, n) ==
    Cardinality({i \in 0..(n - 1) :
                    \E r \in 1..Len(regions) :
                        i >= regions[r].start /\ i <= regions[r].end})

\* the new text differs from the old one in regions that cover less than
\* half of its lines
SmallChange(oldContent, newContent) ==
    LET regions == findChangedRegions(oldContent, newContent) IN
    /\ Len(regions) > 0
    /\ 2 * LinesIn(regions, Len(newContent)) < Len(newContent)

\* run r has analysed its text and shown the findings
AnalysedAndShown(r) == runs[r].analyzed /\ runs[r].out = "shown"

\* C27: when a lint run misses the result cache and an earlier run has
\* analysed a text of the document from which the run's text differs by a
\* small change, the run takes the differential path: the
\* DifferentialProcessor holds a snapshot of the document.
ClaimC27_DifferentialOnMiss ==
    \A r \in Runs :
        (/\ AnalysedAndShown(r)
         /\ \E q \in 1..(r - 1) :
               /\ AnalysedAndShown(q)
               /\ SmallChange(runs[q].content, runs[r].content))
        => FilePath \in DOMAIN previousResults

(***************************************************************************)
(* The claims about RuleLoader                                             *)
(***************************************************************************)
IsLoad(k) == k \in DOMAIN loads /\ loads[k].op = "load"

\* the sources the tasks of call k were made for
TaskSources(k) == {loads[k].tasks[i].source : i \in DOMAIN loads[k].tasks}

\* the sources switched on in settings s; the individual rules are always a
\* source
EnabledSources(s) ==
    {Presets[i].prefix : i \in {x \in DOMAIN Presets : Presets[x].setting \in s}}
    \cup {"additional"}

\* call k is the first loadRules call after a clearCache call that was made
\* while no loadRules call was at its await
NextAfterClear(k) ==
    /\ IsLoad(k)
    /\ k - 1 \in DOMAIN loads
    /\ loads[k - 1].op = "clear"
    /\ ~loads[k - 1].overlaps

Rebuilt(k) == IsLoad(k) /\ ~loads[k].hit /\ loads[k].pc = "done"

\* the place of a source in the list: the four presets, then the individual
\* rules
SourceRank(prefix) ==
    CASE prefix = "technical-writing" -> 1
      [] prefix = "spacing"           -> 2
      [] prefix = "ai-writing"        -> 3
      [] prefix = "jtf-style"         -> 4
      [] OTHER                        -> 5

\* the place of a rule within its source: its index among the preset's rules
\* or in the table of individual rules
PlaceInSource(ruleId) ==
    IF ruleId[1] = "additional"
    THEN CHOOSE i \in DOMAIN IndividualRules : IndividualRules[i][2] = ruleId[2]
    ELSE LET p == Presets[CHOOSE i \in DOMAIN Presets : Presets[i].prefix = ruleId[1]]
         IN CHOOSE j \in DOMAIN p.entries : p.entries[j].id = ruleId[2]

\* rule a stands before rule b in that order
Precedes(a, b) ==
    \/ SourceRank(a[1]) < SourceRank(b[1])
    \/ a[1] = b[1] /\ PlaceInSource(a) < PlaceInSource(b)

\* a function can be taken from the module: it is a function, or an object
\* whose default or linter is one
Usable(module) ==
    \/ module.type = "function"
    \/ module.type = "object" /\ module.default = "function"
    \/ module.type = "object" /\ module.linter = "function"

\* the rules that settings s switch on: the usable rules of each preset
\* switched on and the individual rules switched on
SwitchedOn(s) ==
    {<<Presets[x[1]].prefix, Presets[x[1]].entries[x[2]].id>> :
        x \in {y \in (DOMAIN Presets) \X (1..2) :
                 /\ Presets[y[1]].setting \in s
                 /\ y[2] \in DOMAIN Presets[y[1]].entries
                 /\ Usable(Presets[y[1]].entries[y[2]].module)
                 /\ Presets[y[1]].entries[y[2]].config # "false"}}
    \cup {<<"additional", IndividualRules[i][2]>> :
            i \in {x \in DOMAIN IndividualRules :
                     IndividualRules[x][1] \in s /\ Usable(IndividualRules[x][3])}}

\* C29: the list a loadRules call builds holds its rules in the order
\* technical-writing, spacing, ai-writing, jtf-style, individual rules, each
\* source in the order of its own table, whatever the order the task promises
\* settled in; when nothing throws it holds every rule the settings switch
\* on, so two calls with the same settings build the same list.
TheoremC29_SameOrderEveryBuild ==
    \A k \in DOMAIN loads : Rebuilt(k) =>
        /\ \A i, j \in DOMAIN loads[k].rules :
              i < j => Precedes(loads[k].rules[i].ruleId, loads[k].rules[j].ruleId)
        /\ loads[k].fault = NoFault =>
              {loads[k].rules[i].ruleId : i \in DOMAIN loads[k].rules}
                  = SwitchedOn(loads[k].settings)
        /\ \A h \in DOMAIN loads :
              (/\ Rebuilt(h)
               /\ loads[h].settings = loads[k].settings
               /\ loads[h].fault = NoFault
               /\ loads[k].fault = NoFault) => loads[h].rules = loads[k].rules

\* two calls built the list of all five sources, the promises of one of them
\* settling in the order of the tasks and those of the other in another order
WitnessC29_SettledOutOfOrder ==
    \E h, k \in DOMAIN loads :
        /\ Rebuilt(h) /\ Rebuilt(k)
        /\ ~loads[h].outOfOrder /\ loads[k].outOfOrder
        /\ loads[h].settings = loads[k].settings
        /\ Len(loads[h].tasks) = Len(Presets) + 1
        /\ loads[h].fault = NoFault /\ loads[k].fault = NoFault
        /\ Len(loads[k].rules) > Len(Presets)

\* the rules of the source that threw in call k: every rule of the preset,
\* or the one individual rule
RulesOfFailed(k) ==
    IF loads[k].fault.source = "additional"
    THEN {<<"additional", IndividualRules[loads[k].fault.at][2]>>}
    ELSE {r \in SwitchedOn(loads[k].settings) : r[1] = loads[k].fault.source}

ReturnedIds(k) == {loads[k].rules[i].ruleId : i \in DOMAIN loads[k].rules}

\* C30: a loadRules call in which the load of one source throws returns the
\* rules of every other source switched on and no rule of the source that
\* threw.
ClaimC30_FailedSourceExcluded ==
    \A k \in DOMAIN loads :
        (Rebuilt(k) /\ loads[k].fault # NoFault) =>
            ReturnedIds(k) = SwitchedOn(loads[k].settings) \ RulesOfFailed(k)

\* the module the rule with this ruleId was loaded from
ModuleOf(ruleId) ==
    IF ruleId[1] = "additional"
    THEN IndividualRules[PlaceInSource(ruleId)][3]
    ELSE Presets[CHOOSE i \in DOMAIN Presets : Presets[i].prefix = ruleId[1]]
             .entries[PlaceInSource(ruleId)].module

\* a loadRules call that has returned
Returned(k) == IsLoad(k) /\ loads[k].pc = "done"

\* C31: every entry of a list returned by loadRules holds a function, and no
\* entry comes from a module that is neither a function nor an object with a
\* function as its default or its linter.
TheoremC31_OnlyFunctions ==
    \A k \in DOMAIN loads : Returned(k) =>
        \A i \in DOMAIN loads[k].rules :
            /\ loads[k].rules[i].rule = "function"
            /\ Usable(ModuleOf(loads[k].rules[i].ruleId))

\* a call returned the rules of the ai-writing and spacing presets, each of
\* which has a module without a function, and another call got that list from
\* the memo
WitnessC31_UnusableModulesLeftOut ==
    \E h, k \in DOMAIN loads :
        /\ Rebuilt(h) /\ loads[h].fault = NoFault
        /\ {"spacing", "ai-writing"} \subseteq TaskSources(h)
        /\ \E i \in DOMAIN loads[h].rules : loads[h].rules[i].ruleId[1] = "ai-writing"
        /\ \E i \in DOMAIN loads[h].rules : loads[h].rules[i].ruleId[1] = "spacing"
        /\ Returned(k) /\ loads[k].hit
        /\ loads[k].rules = loads[h].rules

\* run r passes its duplicate check in this step while the analyzer call of
\* another run on the same text, which the document still holds, is unresolved
ChecksDuringFlight(r) ==
    /\ r \in DOMAIN runs
    /\ runs[r].pc = "hash"
    /\ runs'[r].pc # "hash"
    /\ runs[r].content = docText
    /\ \E q \in DOMAIN runs :
         q # r /\ runs[q].pc = "lint" /\ runs[q].content = runs[r].content

\* C34: a lint run that reaches its duplicate check while the first analysis
\* of the same, unchanged text is still in flight leaves the display as it
\* is.
ClaimC34_SecondRunKeepsDisplay ==
    [][\A r \in 1..MaxRuns : ChecksDuringFlight(r) => display' = display]_vars

(***************************************************************************)
(* The claims about the lint requests                                      *)
(***************************************************************************)
\* the log entries of the runs that high-priority events asked for
PriorityRuns ==
    {i \in DOMAIN events :
        events[i].kind \in {"button", "priority", "throttled"} /\ events[i].run > 0}

\* the entries among them that came through the throttled linter
ThrottledRuns == {i \in PriorityRuns : events[i].kind # "button"}

\* entries i and j lie at least the throttle interval apart
Spaced(i, j) ==
    \/ events[j].at - events[i].at >= ThrottleInterval
    \/ events[i].at - events[j].at >= ThrottleInterval

\* event i asked for its run at once, or another high-priority run had been
\* asked for less than the throttle interval before it
NotHeldBack(i) ==
    \/ events[i].run > 0
    \/ \E h \in PriorityRuns :
         h < i /\ events[i].at - events[h].at < ThrottleInterval

\* C32: a run button click, a save keystroke or a file-open asks for its lint
\* run at once, unless another such run was asked for less than 200 ms
\* before, and any two runs these events ask for are at least 200 ms apart.
ClaimC32_PrioritySpaced ==
    /\ \A i \in DOMAIN events :
         events[i].kind \in {"button", "priority"} => NotHeldBack(i)
    /\ \A i, j \in PriorityRuns : i # j => Spaced(i, j)

\* C33: after onunload the debouncer's timer starts no lint run: no run is
\* asked for by the debounce callback later than the unload.
ClaimC33_NoDebounceAfterUnload ==
    \A i, j \in DOMAIN events :
        (events[i].kind = "unload" /\ i < j) => events[j].kind # "debounce"

(***************************************************************************)
(* The claims about a failing analyzer                                     *)
(***************************************************************************)
\* call k ends in this step because its analyzer threw
ThrowsNow(k) ==
    /\ k \in DOMAIN dcalls
    /\ dcalls[k].pc = "await"
    /\ dcalls'[k].threw

\* C38: when the analyzer throws during a processChangedRegionsOnly call, on
\* whichever path the call is, the call rejects with the error, and the stored
\* snapshot and findings of every document, that of the call included, stay
\* as they were.
TheoremC38_ThrowKeepsSnapshots ==
    [][\A k \in DOMAIN dcalls :
          ThrowsNow(k) =>
              /\ dcalls'[k].pc = "done"
              /\ dcalls'[k].out = "error"
              /\ dcalls'[k].messages = <<>>
              /\ previousResults' = previousResults]_vars

\* a call on the minority path has thrown while both documents had a
\* snapshot, and both snapshots are still there, the document's own being the
\* one the call compared against
WitnessC38_RegionCallThrew ==
    \E k \in DOMAIN dcalls :
        /\ dcalls[k].threw
        /\ dcalls[k].mode = "region"
        /\ dcalls[k].out = "error"
        /\ DOMAIN previousResults = DocPaths
        /\ previousResults[dcalls[k].path] = dcalls[k].cached

(***************************************************************************)
(* The claims about the LRUCache                                           *)
(***************************************************************************)
\* the keys met from `node` along next, at most `steps` of them
RECURSIVE KeysAlongNext(_, _, _)
KeysAlongNext(c, node, steps) ==
    IF node = NoNode \/ steps = 0 THEN <<>>
    ELSE <<c.nodes[node].key>> \o KeysAlongNext(c, c.nodes[node].next, steps - 1)

\* the list from the head; a list that runs in a circle is cut after one node
\* more than there are nodes
LruList(c) == KeysAlongNext(c, c.head, Len(c.nodes) + 1)

\* the last node of the list from `node`, NoNode for an empty or circular list
RECURSIVE LastAlongNext(_, _, _)
LastAlongNext(c, node, steps) ==
    IF node = NoNode \/ steps = 0 THEN NoNode
    ELSE IF c.nodes[node].next = NoNode THEN node
    ELSE LastAlongNext(c, c.nodes[node].next, steps - 1)

MapKeys(c) == {c.cache[i].key : i \in DOMAIN c.cache}

\* the map and the counter agree
SizeIsMapSize == lru.currentSize = Len(lru.cache)

\* C39: after any sequence of set, get, has, remove, delete, evictLRU and
\* cleanup calls, the list from head to tail holds exactly the keys of the map,
\* each once, from the most to the least recently set or read, and currentSize
\* is the number of keys of the map.
ClaimC39_ListIsRecencyOrder ==
    ~lru.hung =>
        /\ LruList(lru) = lru.used
        /\ lru.tail = LastAlongNext(lru, lru.head, Len(lru.nodes) + 1)
        /\ {lru.used[i] : i \in DOMAIN lru.used} = MapKeys(lru)
        /\ SizeIsMapSize

\* no more entries than maxSize are held
WithinMaxSize == Len(lru.cache) <= LruMaxSize

\* C40: every set call ends, for every value and after every sequence of
\* calls, and leaves at most maxSize entries.
ClaimC40_SetEndsWithinMaxSize ==
    /\ ~lru.hung
    /\ WithinMaxSize

=============================================================================
